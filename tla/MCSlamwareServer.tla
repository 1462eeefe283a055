------------------------- MODULE MCSlamwareServer -------------------------
(* TLC instances of SlamwareServer.  Three sessions are enough: when a      *)
(* connection is opened, only the handler's copy and the velocity action    *)
(* can still hold an old one.  Two workers, one eager and one not.          *)
EXTENDS SlamwareServer
=============================================================================
