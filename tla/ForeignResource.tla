-------------------------- MODULE ForeignResource --------------------------
(* What each C binding of src/ffi promises about the library behind it,     *)
(* whatever the library.  A native resource (a connection, a statement, a   *)
(* descriptor, a stream) is acquired once, is live until a call releases    *)
(* it, and is gone from then on.  Only a call on a resource releases it,    *)
(* and no call is handed one that was gone before it: nothing is used after *)
(* its release, and nothing is released twice.  The modules of the bindings *)
(* implement this one, and step for step: each step of theirs is a Call,    *)
(* not only each that changes a variable here, for handing over at once     *)
(* again what was just released changes none. *)
CONSTANT Resource

VARIABLES live,    \* acquired and not yet released
          gone,    \* released
          touched  \* what the last call handed to the library

vars == <<live, gone, touched>>

Init == live = {} /\ gone = {} /\ touched = {}

Call ==
  /\ live' \cup gone' \subseteq Resource
  /\ live \cup gone \subseteq live' \cup gone'
  /\ live' \cap gone' = {}
  /\ gone \subseteq gone' /\ gone' \ gone \subseteq touched'
  /\ touched' \subseteq (live' \cup gone') \ gone

Spec == Init /\ [][Call]_vars
=============================================================================
