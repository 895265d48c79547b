---------------------------- MODULE MemoryPromises ----------------------------
(***************************************************************************)
(* What the family is promised by the process alone: invitations, the      *)
(* grandparent's question, sealed capsules, quiet messages and gifts.      *)
(* Each use case is made once by the container, keeps a dictionary, and    *)
(* forgets it at a restart; members, little things, Sparks and the event   *)
(* log stay.  No route calls them yet: their callers here are threads of   *)
(* the server that share the container, as they do for every use case.     *)
(*                                                                         *)
(* A day is its number since the child was born; a year has Year of them.  *)
(***************************************************************************)
EXTENDS Integers, FiniteSets

CONSTANTS
  People, Founder,   \* members to be; Founder is one from the start
  Tokens,            \* secrets.token_urlsafe: never the same twice
  Callers,           \* threads that accept an invitation or send a message
  InviteDays,        \* DEFAULT_INVITATION_TTL_DAYS, 14
  Year, AskDays,     \* 365; the question comes 30 days before a birthday
  LeapBorn,          \* was the child born on a 29th of February
  Wishes,            \* Sparks for the child
  LastDay, MaxSeals, MaxMessages  \* bounds: how long the family is watched, what it seals, what a day sends

ASSUME MemoryAssumption == /\ Founder \in People /\ Year \in Nat \ {0} /\ AskDays \in 0 .. Year
                           /\ InviteDays \in Nat /\ {LastDay, MaxSeals, MaxMessages} \subseteq Nat /\ LeapBorn \in BOOLEAN

Never == -1
Founding == "founding"
NotAMember == "not a member"
ASSUME TokensAssumption == Founding \notin Tokens /\ NotAMember \notin Tokens
NotCalled == [step |-> "idle"]

VARIABLES
  dayNo,
  invited,     \* memory: the day each invitation was made, or Never: not made, claimed, forgotten
  cameBy,      \* member rows; the invitation a member came by
  accepting,   \* each call of accept_invitation, between its statements
  overlapped,  \* history: invitations two calls were inside of at once
  asked,       \* the age the grandparent is being asked about, or 0
  settled,     \* memory: _skipped_prompts
  replied,     \* little things: the ages a grandparent has told of
  noting,      \* the age of a reply stored and not yet noted, or 0
  lost,        \* history: ages the process had noted, or was about to, when it stopped
  wish,        \* status of each Spark
  why,         \* Sparks with a recorded why
  compiled,    \* what a call of seal_the_unfinished has listed, or {}
  capsules,    \* memory: <<number, kind, items>> of each sealed capsule
  sealings,    \* how many were ever sealed; the stored event of a sealing has no items
  silenced,    \* memory: the member's preference
  lastSent,    \* memory: last_sent_at, or Never
  sending,     \* each call of schedule_message: what it read, and was the preference written since
  hushed,      \* history: was silence what the member asked for last
  undone,      \* history: did a stop, or a call that had read before, take that back
  sentToday,   \* history: how many messages the member had today
  forgiven,    \* history: did the use case forget today that it had sent one
  crossed,     \* history: did a call send one today over a preference written since it read
  plan         \* memory: the entitlement

inviteVars == <<invited, cameBy, accepting, overlapped>>
askVars == <<asked, settled, replied, noting, lost>>
capsuleVars == <<wish, why, compiled, capsules, sealings>>
quietVars == <<silenced, lastSent, sending, hushed, undone, sentToday, forgiven, crossed, plan>>
memoryVars == <<dayNo, inviteVars, askVars, capsuleVars, quietVars>>

Members == {p \in People : cameBy[p] # NotAMember}

---------------------------------------------------------------------------
(* Invitations (application/invitations.py)                                *)

InUse(t) == \E c \in Callers : accepting[c] # NotCalled /\ accepting[c].token = t

CreateInvitation(t, inviter) ==
  /\ inviter \in Members /\ invited[t] = Never
  /\ \A p \in People : cameBy[p] # t   \* a new secret
  /\ t \notin overlapped /\ ~ InUse(t)
  /\ invited' = [invited EXCEPT ![t] = dayNo]
  /\ UNCHANGED <<dayNo, cameBy, accepting, overlapped, askVars, capsuleVars, quietVars>>

\* get_invitation, the family and add_member: read, and not yet written.
AcceptReads(c, t, p) ==
  /\ accepting[c] = NotCalled /\ invited[t] # Never /\ dayNo <= invited[t] + InviteDays
  /\ p \notin Members
  /\ accepting' = [accepting EXCEPT ![c] = [step |-> "save", token |-> t, person |-> p]]
  /\ overlapped' = IF InUse(t) THEN overlapped \cup {t} ELSE overlapped
  /\ UNCHANGED <<dayNo, invited, cameBy, askVars, capsuleVars, quietVars>>

\* families.save writes the members it read and the new one; it removes none.
AcceptSaves(c) ==
  /\ accepting[c] # NotCalled /\ accepting[c].step = "save"
  /\ cameBy' = [cameBy EXCEPT ![accepting[c].person] = accepting[c].token]
  /\ accepting' = [accepting EXCEPT ![c].step = "forget"]
  /\ UNCHANGED <<dayNo, invited, overlapped, askVars, capsuleVars, quietVars>>

\* A slip: the token stays.
AcceptRemembers(c) ==
  /\ accepting[c] # NotCalled /\ accepting[c].step = "forget"
  /\ accepting' = [accepting EXCEPT ![c] = NotCalled]
  /\ UNCHANGED <<dayNo, invited, cameBy, overlapped, askVars, capsuleVars, quietVars>>
\* `del`: a second call finds nothing to delete and raises, its member saved all the same.
AcceptForgets(c) ==
  /\ accepting[c] # NotCalled /\ accepting[c].step = "forget"
  /\ invited' = [invited EXCEPT ![accepting[c].token] = Never]
  /\ accepting' = [accepting EXCEPT ![c] = NotCalled]
  /\ UNCHANGED <<dayNo, cameBy, overlapped, askVars, capsuleVars, quietVars>>

InvitationNext ==
  \/ \E t \in Tokens, p \in People : CreateInvitation(t, p)
  \/ \E c \in Callers, t \in Tokens, p \in People : AcceptReads(c, t, p)
  \/ \E c \in Callers : AcceptSaves(c) \/ AcceptForgets(c)

---------------------------------------------------------------------------
(* The grandparent's question (GrandparentPromptUseCase)                   *)

\* The next birthday's year; on the day itself, this one.
MilestoneAge == (dayNo + Year - 1) \div Year
IsDue == MilestoneAge * Year - dayNo <= AskDays
\* date(year, 2, 29) raises in three years of four.
HasBirthday == ~ LeapBorn \/ MilestoneAge % 4 = 0

CheckEligiblePrompt ==
  /\ HasBirthday
  /\ asked' = IF MilestoneAge \notin settled /\ IsDue THEN MilestoneAge ELSE 0
  /\ UNCHANGED <<dayNo, inviteVars, settled, replied, noting, lost, capsuleVars, quietVars>>

SkipForever ==
  /\ asked # 0 /\ settled' = settled \cup {asked} /\ asked' = 0
  /\ UNCHANGED <<dayNo, inviteVars, replied, noting, lost, capsuleVars, quietVars>>

\* record_response: the little thing and its event commit, then the age is noted.
RespondCommits ==
  /\ asked # 0 /\ noting = 0 /\ replied' = replied \cup {asked} /\ noting' = asked
  /\ UNCHANGED <<dayNo, inviteVars, asked, settled, lost, capsuleVars, quietVars>>
RespondNotes ==
  /\ noting # 0 /\ settled' = settled \cup {noting} /\ noting' = 0
  /\ asked' = IF asked = noting THEN 0 ELSE asked
  /\ UNCHANGED <<dayNo, inviteVars, replied, lost, capsuleVars, quietVars>>

AskNext == CheckEligiblePrompt \/ SkipForever \/ RespondCommits \/ RespondNotes

---------------------------------------------------------------------------
(* Capsules (application/capsules.py, domain/capsule.py)                   *)

Unlived == {w \in Wishes : wish[w] = "waiting"}

Moves(w, status) ==
  /\ wish[w] = "waiting" /\ wish' = [wish EXCEPT ![w] = status]
  /\ UNCHANGED <<dayNo, inviteVars, askVars, why, compiled, capsules, sealings, quietVars>>
SaysWhy(w) ==
  /\ w \notin why /\ why' = why \cup {w}
  /\ UNCHANGED <<dayNo, inviteVars, askVars, wish, compiled, capsules, sealings, quietVars>>

Unfinished == Unlived \cap why

\* seal_the_unfinished lists the Sparks, and refuses an empty list ...
ListsUnfinished ==
  /\ compiled = {} /\ Unfinished # {} /\ compiled' = Unfinished
  /\ UNCHANGED <<dayNo, inviteVars, askVars, wish, why, capsules, sealings, quietVars>>
\* ... then keeps the capsule in the dictionary; an empty one is refused.
SealCapsule(kind, items) ==
  /\ items # {} /\ sealings < MaxSeals /\ sealings' = sealings + 1
  /\ capsules' = capsules \cup {<<sealings', kind, items>>}
  /\ UNCHANGED <<dayNo, inviteVars, askVars, wish, why, quietVars>>
SealTheUnfinished == SealCapsule("THE_UNFINISHED", compiled) /\ compiled' = {}
\* seal_age_n_capsule takes the items its caller chose.
SealAgeN(items) == SealCapsule("AGE_N", items) /\ UNCHANGED compiled

CapsuleNext ==
  \/ \E w \in Wishes : Moves(w, "lived") \/ Moves(w, "archived") \/ SaysWhy(w)
  \/ \E items \in SUBSET Wishes : SealAgeN(items)
  \/ ListsUnfinished \/ SealTheUnfinished

---------------------------------------------------------------------------
(* Quiet messages and gifts (application/messaging.py, billing.py)         *)

\* Those between their read and their write do not know what was written in between.
Sending(c) == sending[c] # NotCalled
Outdated(calls) == [c \in Callers |-> IF c \in calls /\ Sending(c) THEN [sending[c] EXCEPT !.behind = TRUE] ELSE sending[c]]

SetPreference(quiet) ==
  /\ silenced' = quiet /\ lastSent' = Never /\ sending' = Outdated(Callers)
  /\ hushed' = quiet /\ undone' = FALSE /\ forgiven' = TRUE
  /\ UNCHANGED <<dayNo, inviteVars, askVars, capsuleVars, sentToday, crossed, plan>>

\* schedule_message reads the preference, and checks the wording ...
MessageReads(c) ==
  /\ ~ Sending(c) /\ ~ silenced
  /\ sentToday + Cardinality({d \in Callers : Sending(d)}) < MaxMessages
  /\ sending' = [sending EXCEPT ![c] = [step |-> "check", last |-> lastSent, at |-> Never, behind |-> FALSE]]
  /\ UNCHANGED <<dayNo, inviteVars, askVars, capsuleVars, silenced, lastSent, hushed, undone, sentToday,
                 forgiven, crossed, plan>>

\* ... takes the time, and lets at most one through in 24 hours of the last it read of ...
MessageChecks(c) ==
  /\ Sending(c) /\ sending[c].step = "check"
  /\ sending' = [sending EXCEPT ![c] =
       IF sending[c].last = Never \/ dayNo - sending[c].last >= 1
         THEN [step |-> "send", last |-> sending[c].last, at |-> dayNo, behind |-> sending[c].behind]
         ELSE NotCalled]
  /\ UNCHANGED <<dayNo, inviteVars, askVars, capsuleVars, silenced, lastSent, hushed, undone, sentToday,
                 forgiven, crossed, plan>>

\* ... then writes the preference with silenced=False, whatever it is by now, and delivers.
MessageSends(c) ==
  /\ Sending(c) /\ sending[c].step = "send"
  /\ silenced' = FALSE /\ lastSent' = sending[c].at
  /\ sending' = [Outdated(Callers \ {c}) EXCEPT ![c] = NotCalled]
  /\ sentToday' = IF sending[c].at = dayNo THEN sentToday + 1 ELSE sentToday
  /\ crossed' = (crossed \/ sending[c].behind) /\ undone' = (undone \/ (silenced /\ sending[c].behind))
  /\ UNCHANGED <<dayNo, inviteVars, askVars, capsuleVars, hushed, forgiven, plan>>

\* expires_at is computed and never read: a plan given does not lapse.
Gift == /\ plan' = "GIFTED_MEMBERSHIP"
        /\ UNCHANGED <<dayNo, inviteVars, askVars, capsuleVars, silenced, lastSent, sending, hushed, undone,
                       sentToday, forgiven, crossed>>

QuietNext ==
  \/ \E quiet \in BOOLEAN : SetPreference(quiet)
  \/ \E c \in Callers : MessageReads(c) \/ MessageChecks(c) \/ MessageSends(c)
  \/ Gift

---------------------------------------------------------------------------
NextDay == /\ dayNo < LastDay /\ dayNo' = dayNo + 1
           /\ sentToday' = 0 /\ forgiven' = FALSE /\ crossed' = FALSE
           /\ UNCHANGED <<inviteVars, askVars, capsuleVars, silenced, lastSent, sending, hushed, undone, plan>>

\* The process stops, a call between its statements with it.
Restart ==
  /\ invited' = [t \in Tokens |-> Never] /\ accepting' = [c \in Callers |-> NotCalled]
  /\ settled' = {} /\ noting' = 0 /\ asked' = 0 /\ lost' = lost \cup settled \cup ({noting} \ {0})
  /\ compiled' = {} /\ capsules' = {}
  /\ silenced' = FALSE /\ lastSent' = Never /\ sending' = [c \in Callers |-> NotCalled]
  /\ undone' = TRUE /\ forgiven' = TRUE /\ plan' = "FREE"
  /\ UNCHANGED <<dayNo, cameBy, overlapped, replied, wish, why, sealings, hushed, sentToday, crossed>>

MemoryInit ==
  /\ dayNo \in 0 .. LastDay
  /\ invited = [t \in Tokens |-> Never] /\ accepting = [c \in Callers |-> NotCalled] /\ overlapped = {}
  /\ cameBy = [p \in People |-> IF p = Founder THEN Founding ELSE NotAMember]
  /\ asked = 0 /\ settled = {} /\ replied = {} /\ noting = 0 /\ lost = {}
  /\ wish = [w \in Wishes |-> "waiting"] /\ why = {} /\ compiled = {} /\ capsules = {} /\ sealings = 0
  /\ silenced = FALSE /\ lastSent = Never /\ sending = [c \in Callers |-> NotCalled] /\ hushed = FALSE
  /\ undone = FALSE /\ sentToday = 0 /\ forgiven = FALSE /\ crossed = FALSE /\ plan = "FREE"

MemoryNext == InvitationNext \/ AskNext \/ CapsuleNext \/ QuietNext \/ NextDay \/ Restart
MemorySpec == MemoryInit /\ [][MemoryNext]_memoryVars

MemoryTypeOK ==
  /\ dayNo \in 0 .. LastDay /\ invited \in [Tokens -> {Never} \cup 0 .. LastDay]
  /\ cameBy \in [People -> Tokens \cup {Founding, NotAMember}] /\ overlapped \subseteq Tokens
  /\ \A c \in Callers : accepting[c] \in {NotCalled} \cup [step : {"save", "forget"}, token : Tokens, person : People]
  /\ settled \cup replied \cup lost \subseteq Nat \ {0} /\ {asked, noting} \subseteq Nat
  /\ wish \in [Wishes -> {"waiting", "lived", "archived"}] /\ why \cup compiled \subseteq Wishes
  /\ capsules \subseteq (1 .. sealings) \X {"AGE_N", "THE_UNFINISHED"} \X SUBSET Wishes /\ sealings \in 0 .. MaxSeals
  /\ {silenced, hushed, undone, forgiven, crossed} \subseteq BOOLEAN /\ lastSent \in {Never} \cup 0 .. LastDay
  /\ \A c \in Callers : Sending(c) => sending[c] \in
       [step : {"check", "send"}, last : {Never} \cup 0 .. LastDay, at : {Never} \cup 0 .. dayNo, behind : BOOLEAN]
  /\ sentToday \in 0 .. MaxMessages /\ plan \in {"FREE", "GIFTED_MEMBERSHIP"}

---------------------------------------------------------------------------
\* PromisesInMemory: what memory alone promises is kept as long as nothing takes the
\* memory: an invitation lets one person in, unless two accepted it at once; a grandparent
\* who told of an age is not asked about it again, unless the process stopped since or is
\* between storing and noting; a second message in a day takes a forgotten first, or a call
\* that crossed another; whoever asked for silence has it, unless the process stopped or a call
\* that had read before wrote over it; and no capsule is empty, nor one of the unfinished holds
\* a Spark without its why.
PromisesInMemory ==
  /\ \A t \in Tokens : t \in overlapped \/ Cardinality({p \in People : cameBy[p] = t}) <= 1
  /\ asked \in replied => asked = noting \/ asked \in lost
  /\ asked \notin settled
  /\ sentToday > 1 => forgiven \/ crossed
  /\ hushed => silenced \/ undone
  /\ \A c \in capsules : c[3] # {} /\ (c[2] = "THE_UNFINISHED" => c[3] \subseteq why)

\* "Delivers at most one gentle prompt a day" (messaging.py): checked by hand, it fails -
\* setting the preference, even to what it was, forgets the message sent.
OneMessageADay == sentToday <= 1
=============================================================================
