------------------------------ MODULE MCParts -------------------------------
(***************************************************************************)
(* Five parts that share no state, side by side: a behaviour is one of one *)
(* part, chosen at the start, while the others rest in their initial       *)
(* states.  What another part could do to one of them (a gateway that      *)
(* refuses a token, a job that moves) is among that part's own actions.    *)
(***************************************************************************)
EXTENDS FrontendSession, AuthGateway, SdkClient, Payout, Autoscaler, TLC

CONSTANTS l1, l2, s1, s2, t1, t2, j1, w1, w2, v1, n1, n2, p1, p2, u1, u2, m1, m2, c1, c2

VARIABLE part

(* The end of a month that is the end of a year, and midnight after it. *)
MCCalendar == <<[year |-> 1, month |-> 12, day |-> 15], [year |-> 2, month |-> 1, day |-> 1]>>

Symmetry == UNION {Permutations(S) : S \in {{n1, n2}, {p1, p2}, {u1, u2}}}

Init == PageInit /\ AuthInit /\ SdkInit /\ PayoutInit /\ AutoInit
        /\ part \in {"page", "gateway", "script", "payout", "scaling"}

Next ==
  /\ UNCHANGED part
  /\ \/ part = "page" /\ PageNext /\ UNCHANGED <<authVars, sdkVars, payoutVars, autoVars>>
     \/ part = "gateway" /\ AuthNext /\ UNCHANGED <<pageVars, sdkVars, payoutVars, autoVars>>
     \/ part = "script" /\ SdkNext /\ UNCHANGED <<pageVars, authVars, payoutVars, autoVars>>
     \/ part = "payout" /\ PayoutNext /\ UNCHANGED <<pageVars, authVars, sdkVars, autoVars>>
     \/ part = "scaling" /\ AutoNext /\ UNCHANGED <<pageVars, authVars, sdkVars, payoutVars>>

Spec == Init /\ [][Next]_<<pageVars, authVars, sdkVars, payoutVars, autoVars, part>>
=============================================================================
