------------------------------ MODULE ArgsValue ------------------------------
(***************************************************************************)
(* What a command's argument map promises (src/OctoCore/Command.h, the    *)
(* comment on args(); spec.md 8, copy-on-write of args): the arguments    *)
(* behave as a value.  The command has one current map; a setter changes  *)
(* one field of it; operator[] on a missing field inserts the default     *)
(* value; args() hands out the map as it is at that moment, and a handle  *)
(* reads that same map for as long as it lives, whatever the command does *)
(* afterwards.  There are no addresses, copies or use counts here:        *)
(* CommandArgs is shown to implement this module with args the command's  *)
(* current map and handle the maps the live handles point to.             *)
(***************************************************************************)
CONSTANTS
    Fields,     \* argument FieldIds
    Values,     \* argument values
    Default,    \* GenericValue()
    Absent,     \* no entry for the field
    Handles     \* shared_ptr<const Map> copies callers and records may keep

VARIABLES
    args,       \* the command's arguments
    handle      \* handle[h]: the arguments handle h reads; DOMAIN: live handles

vars == <<args, handle>>

Init == /\ args = [f \in Fields |-> Absent]
        /\ handle = [h \in {} |-> args]

\* ArgField::operator=, or a write through a reference into the arguments.
Set(f, v) == /\ args' = [args EXCEPT ![f] = v]
             /\ UNCHANGED handle

\* operator*, operator-> or operator[]: a missing field gets the default.
Touch(f) == /\ args' = IF args[f] = Absent THEN [args EXCEPT ![f] = Default]
                       ELSE args
            /\ UNCHANGED handle

\* args(): a handle to the arguments as they are now.
Capture(h) == /\ h \notin DOMAIN handle
              /\ handle' = [x \in DOMAIN handle \cup {h} |->
                              IF x = h THEN args ELSE handle[x]]
              /\ UNCHANGED args

\* The handle is destroyed.
Release(h) == /\ h \in DOMAIN handle
              /\ handle' = [x \in DOMAIN handle \ {h} |-> handle[x]]
              /\ UNCHANGED args

Next ==
    \/ \E f \in Fields, v \in Values : Set(f, v)
    \/ \E f \in Fields : Touch(f)
    \/ \E h \in Handles : Capture(h) \/ Release(h)

Spec == Init /\ [][Next]_vars
=============================================================================
