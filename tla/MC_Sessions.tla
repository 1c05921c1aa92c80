---------------------------- MODULE MC_Sessions ----------------------------
(***************************************************************************)
(* Instances of Sessions for TLC.                                          *)
(***************************************************************************)
EXTENDS Sessions, FiniteSets, TLC

Symmetry == Permutations(Sessions) \cup Permutations(Requests)

\* Checks and logouts overlap with anything while there is one session;
\* once there are two, only logins overlap.
ChecksRunAlone ==
    \/ Cardinality(born) <= 1
    \/ \A r \in Requests :
          ~At(r, "idle") /\ req[r].kind # "gen"
              => \A q \in Requests \ {r} : At(q, "idle")

(***************************************************************************)
(* Days are only compared with today, so two states that agree on the days *)
(* left behave alike (MaxDay is so large that it only ends runs in which   *)
(* everything has expired).  What a handler does not use any more is left  *)
(* out: the old token once it is on the blacklist, a TTL once it is used.  *)
(***************************************************************************)
Left(day) == IF day > now THEN day - now ELSE 0

DocLeft(s) == <<docs[s].user, docs[s].deleted,
                Left(docs[s].expiresAt + Latency + 1)>>

RequestLeft(r) ==
    [req[r] EXCEPT !.began = Left(@ + Latency + 1),
                   !.old = IF req[r].pc = "genBlack" THEN @ ELSE Null,
                   !.held = IF req[r].kind = "gen" THEN Left(@ + Latency + 1)
                            ELSE IF req[r].pc = "checkStore" THEN @ ELSE 0]

DaysLeft ==
    <<[s \in Sessions |-> <<DocLeft(s), Left(cache[s]),
                            blackTok[s] > 0, Left(blackTok[s])>>],
      [u \in Users |-> <<token[u].session, Live(token[u].gone)>>],
      blackSess, blackAccess, [r \in Requests |-> RequestLeft(r)], history>>
=============================================================================
