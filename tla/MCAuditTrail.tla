----------------------------- MODULE MCAuditTrail -----------------------------
(***************************************************************************)
(* What a request finds out about its caller, for TLC: the context and the *)
(* trail, the rows of users and what is fetched from the identity          *)
(* provider.  AuditTrail takes any user get_current_user may return, so    *)
(* none reads what another writes: it is enough to run each beside the     *)
(* others' initial states.                                                 *)
(***************************************************************************)
EXTENDS AuditTrail, Accounts, TokenCache, SsoCerts, TLC

MCEmailOf == [p \in Person |-> CHOOSE e \in Email : TRUE]
MCNameOf == [p \in Person |-> CHOOSE n \in Name : TRUE]

CallerInit == Init /\ AccInit /\ TokInit /\ CertsInit
CallerNext ==
    \/ AccInit /\ TokInit /\ CertsInit /\ Next /\ UNCHANGED <<accVars, tokVars, certVars>>
    \/ Init /\ TokInit /\ CertsInit /\ AccNext /\ UNCHANGED <<vars, tokVars, certVars>>
    \/ Init /\ AccInit /\ CertsInit /\ TokNext /\ UNCHANGED <<vars, accVars, certVars>>
    \/ Init /\ AccInit /\ TokInit /\ CertsNext /\ UNCHANGED <<vars, accVars, tokVars>>
CallerSpec == CallerInit /\ [][CallerNext]_<<vars, accVars, tokVars, certVars>>

\* Requests are only compared with one another.
AuditSymmetry == Permutations(Request) \cup Permutations(AccountRequest)
=============================================================================
