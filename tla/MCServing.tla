------------------------------- MODULE MCServing -------------------------------
(***************************************************************************)
(* What one server process holds besides its database, checked side by     *)
(* side: the connection and its unit of work, what the Return Engine       *)
(* brings back, what the use cases promise from memory, what the family    *)
(* taught about its words, and the rate limiter.  They share no variable,  *)
(* so a behaviour is of one part and the others rest in a plain state.     *)
(***************************************************************************)
EXTENDS UnitOfWork, ReturnScoring, MemoryPromises, FamilyLexicon, RateLimits, TLC

VARIABLE part

MCTraits == <<[window |-> <<4, 6>>, actionable |-> TRUE, season |-> "summer"],
              [window |-> <<5, 5>>, actionable |-> FALSE, season |-> "none"],
              [window |-> NoWindow, actionable |-> TRUE, season |-> "winter"]>>
MCRoutes == {[method |-> "POST", words |-> {"sparks"}], [method |-> "POST", words |-> {"pairing", "claim"}]}
MCMaxRequests == [capture |-> 2, bulk_egress |-> 1, auth |-> 1, default |-> 1]

MCMeanings == [INTENT |-> {1, 2}, CATEGORY |-> {1}]
\* General English knows the second word, and not the first.
MCEnglish == [words \in SparkWords |-> [v \in {1, 2} |-> IF 2 \in words THEN v ELSE 0]]

servingVars == <<vars, scoringVars, memoryVars, lexiconVars, limitVars, part>>

Plain == /\ part # "returns" => day = 1450 /\ \A s \in Sparks : spark[s].said = {}
         /\ part # "asked" => dayNo = 0
ServingInit ==
  /\ part \in {"requests", "returns", "invited", "asked", "sealed", "sent", "taught", "taught at once", "limits"}
  /\ Init /\ ScoringInit /\ MemoryInit /\ LexiconInit /\ LimitInit /\ Plain

\* Each promise of the memory is explored without the others.
Memory == /\ MemoryNext
          /\ part = "invited" => dayNo' <= 3 /\ UNCHANGED <<askVars, capsuleVars, quietVars>>
          /\ part = "asked" => UNCHANGED <<inviteVars, capsuleVars, quietVars>>
          /\ part = "sealed" => UNCHANGED <<dayNo, inviteVars, askVars, quietVars>>
          /\ part = "sent" => dayNo' <= 2 /\ UNCHANGED <<inviteVars, askVars, capsuleVars>>

\* Corrections one after another; and two that overlap.
Lexicon ==
  /\ LexiconNext
  /\ part = "taught" => \A a \in Askers : asking'[a] # "idle" => Alone(a)
  /\ part = "taught at once" => clock' <= 3 /\ \A k \in WordKeys : k[1] = "CATEGORY" => tapped'[k] = 0

ServingNext ==
  /\ UNCHANGED part
  /\ \/ part = "requests" /\ Next /\ UNCHANGED <<scoringVars, memoryVars, lexiconVars, limitVars>>
     \/ part = "returns" /\ ScoringNext /\ UNCHANGED <<vars, memoryVars, lexiconVars, limitVars>>
     \/ /\ part \in {"invited", "asked", "sealed", "sent"} /\ Memory
        /\ UNCHANGED <<vars, scoringVars, lexiconVars, limitVars>>
     \/ /\ part \in {"taught", "taught at once"} /\ Lexicon
        /\ UNCHANGED <<vars, scoringVars, memoryVars, limitVars>>
     \/ part = "limits" /\ LimitNext /\ UNCHANGED <<vars, scoringVars, memoryVars, lexiconVars>>

ServingSpec == ServingInit /\ [][ServingNext]_servingVars

\* The end of a bucket that Within takes is what the code's comprehension keeps of it.
WindowIsAFilter == \A tier \in Tiers : Within(bucket[tier]) = SelectSeq(bucket[tier], LAMBDA t : t > tick - Window)

ServingTypeOK == TypeOK /\ ScoringTypeOK /\ MemoryTypeOK /\ LexiconTypeOK /\ LimitTypeOK /\ WindowIsAFilter
=============================================================================
