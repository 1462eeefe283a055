---------------------------- MODULE MCJackServer ----------------------------
(* Two goals are enough for one to end, or be past its look at the mode,    *)
(* while the other moves the jack.                                          *)
EXTENDS JackServer
=============================================================================
