------------------------------ MODULE MCCalls ------------------------------
(***************************************************************************)
(* Two applications of the loader in one instance: one makes a single load *)
(* of any input, the other several calls on two structs in any order.      *)
(***************************************************************************)
EXTENDS MCLoader

VARIABLE app

AllRequests == InputRequests \cup SequenceRequests

AppInit == Init /\ app \in {"wide", "deep"}

AppNext ==
  /\ \/ /\ pc = "idle" /\ app = "wide" /\ calls = 0
        /\ \E r \in InputRequests : Load("c1", r)
     \/ /\ pc = "idle" /\ app = "deep" /\ calls < MaxCalls
        /\ \E c \in Cfgs : \/ Free(c)
                          \/ \E r \in SequenceRequests : Load(c, r) \/ ParseCli(c, r)
     \/ Step
  /\ UNCHANGED app

\* A behaviour of FairSpec with the choice of the application added.
AppSpec == AppInit /\ [][AppNext]_<<vars, app>> /\ WF_vars(Step)
=============================================================================
