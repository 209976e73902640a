------------------------------- MODULE Program -------------------------------
(***************************************************************************)
(* cmd/piiproxy with the loading of consumers.yaml inside it: main calls   *)
(* config.Load between the settings and the store, and goes on with the    *)
(* registry or ends with its error (main.go:43-47).                        *)
(*                                                                         *)
(* main stands at "registry" while ConfigLoad takes its steps; signals are *)
(* sent and delivered meanwhile.                                           *)
(***************************************************************************)
EXTENDS Lifecycle, ConfigLoad

programVars == <<vars, loadVars>>

ProgramInit == Init /\ LoadInit

Load == main = "registry" /\ LoadNext /\ UNCHANGED vars

(* A file that cannot be read is not even checked.                         *)
FileDecides ==
    /\ LoadRegistry => phase = "accepted"
    /\ RegistryFails => phase \in {"check", "rejected"}

Runs(step) == step /\ FileDecides /\ UNCHANGED loadVars

ProgramNext == Load \/ Runs(Next)

(* The fairness of Lifecycle; to load the file is a part of main.          *)
ProgramFairness ==
    /\ WF_programVars(Load \/ Runs(MainSteps))
    /\ WF_programVars(Runs(DeliverSignal))
    /\ WF_programVars(Runs(TimeOut))
    /\ WF_programVars(Runs(CleanerStops))

ProgramSpec == ProgramInit /\ [][ProgramNext]_programVars /\ ProgramFairness
=============================================================================
