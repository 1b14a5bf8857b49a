---------------------------- MODULE MCAgentTurn ----------------------------
(***************************************************************************)
(* Instances of AgentTurn for TLC.  The answer instance leaves out retries *)
(* and compactions, so that two runtimes finish whole turns and commands   *)
(* next to each other within the bounds.                                   *)
(***************************************************************************)
EXTENDS AgentTurn

AnswerTurn(r) ==
    /\ AnswerStep(r) \/ PlanStep(r) \/ FinishCommand(r)
    /\ Credit(r)
    /\ UNCHANGED commands

AnswerNext ==
    \/ \E r \in Runtimes : AnswerTurn(r) \/ UserStep(r)
    \/ \E w \in Writers \ Runtimes :
        OutsiderStep(w) /\ Credit(w) /\ UNCHANGED <<turn, responses>>

AnswerSpec == AgentInit /\ [][AnswerNext]_agentVars
FairAnswerSpec == AnswerSpec /\ \A r \in Runtimes : WF_agentVars(AnswerTurn(r))
=============================================================================
