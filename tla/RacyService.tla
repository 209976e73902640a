----------------------------- MODULE RacyService -----------------------------
(***************************************************************************)
(* What POST /process promises clients that do not wait: MaskService with  *)
(* an instant between the look at a key and the masking.  A request that   *)
(* found its key unbound binds it later, whoever has bound it meanwhile;   *)
(* the mask that stood there can then be restored by nobody.  All else is  *)
(* as for clients that wait: who found the key bound is answered from what *)
(* it found, and a refused request changes nothing.                        *)
(***************************************************************************)
EXTENDS MaskService

Miss(r) ==
    /\ stage[r] = "asked"
    /\ KeyOf(asked[r]) \notin DOMAIN bound
    /\ stage' = [stage EXCEPT ![r] = "missed"]
    /\ UNCHANGED <<bound, now, crashes, asked, answer>>

BindLate(r) == stage[r] = "missed" /\ Rebind(r)

RefuseLate(r) ==
    /\ stage[r] = "missed"
    /\ \E status \in {429, 503} : Decide(r, Refusal(status))
    /\ UNCHANGED bound

RacyNext ==
    \/ \E r \in Requests :
          \/ Ask(r) \/ Miss(r) \/ BindLate(r) \/ Consult(r)
          \/ Refuse(r) \/ RefuseLate(r) \/ Hear(r)
    \/ Elapse \/ Crash

RacySpec == Init /\ [][RacyNext]_vars
=============================================================================
