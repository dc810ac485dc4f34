------------------------- MODULE PublicationRegistry -------------------------
(***************************************************************************)
(* What publishing means to the owner of a memory: it is listed in a       *)
(* destination only from a publication on that names the destination, and  *)
(* stays listed there until a retraction that names it.  Nothing else, and *)
(* in particular no publication to some other destination, changes that.   *)
(***************************************************************************)
CONSTANTS Destinations, Operators, Kinds

VARIABLES
  listed,   \* the destinations the memory is listed in
  running   \* running[o]: the operation o is executing, and what it names

Operation == [kind : Kinds, dests : SUBSET Destinations]
Nothing == [kind |-> "none", dests |-> {}]

RegistryInit ==
  /\ listed = {}
  /\ running = [o \in Operators |-> Nothing]

Begin(o, operation) ==
  /\ running[o] = Nothing
  /\ running' = [running EXCEPT ![o] = operation]
  /\ UNCHANGED listed

Enlist(o, dests) ==
  /\ running[o].kind = "publish"
  /\ dests \subseteq running[o].dests
  /\ listed' = listed \cup dests
  /\ UNCHANGED running

Delist(o, dests) ==
  /\ running[o].kind = "retract"
  /\ dests \subseteq running[o].dests
  /\ listed' = listed \ dests
  /\ UNCHANGED running

Finish(o) ==
  /\ running' = [running EXCEPT ![o] = Nothing]
  /\ UNCHANGED listed

RegistryNext ==
  \E o \in Operators :
    \/ \E operation \in Operation : Begin(o, operation)
    \/ \E dests \in SUBSET Destinations : Enlist(o, dests) \/ Delist(o, dests)
    \/ Finish(o)

RegistrySpec == RegistryInit /\ [][RegistryNext]_<<listed, running>>

=============================================================================
