-------------------------- MODULE Household_proofs --------------------------
(***************************************************************************)
(* Why a revoked phone stays out, a correction stands and nothing of a     *)
(* family outlives it, for any number of requests, families, devices,      *)
(* codes and recordings, and with any bounds.                              *)
(*                                                                         *)
(* No lock orders these requests: what holds them together is that an id   *)
(* is given out once, so that whatever two requests know of a device, a    *)
(* code or a recording names the same family; and that a request which     *)
(* could bring an erased family back overlapped the erasure.               *)
(***************************************************************************)
EXTENDS Household, FiniteSetTheorems, TLAPS

DeviceRecord == [family : Families, revoked : BOOLEAN]
CodeRecord == [family : Families, until : 0 .. MaxNow + CodeTtl, claimed : BOOLEAN]
NoteRecord == [family : Families, words : {"nobody", "machine", "human"}]

Ats == { "idle", "seen", "open", "revoke", "revoking", "founding", "pairing", "find", "consume",
         "join", "wrong", "child", "naming", "export", "publishing", "upload", "recording", "keep", "keeping", "remember",
         "correct", "correcting", "erase", "emptying", "folder", "unlisting", "rows", "trail" }

Rows == {None} \cup DeviceRecord \cup CodeRecord \cup NoteRecord

Request == [ at : Ats, op : Asked \cup {"claim", None}, who : Devices \cup {None},
             fam : Families \cup {None}, row : Rows,
             what : Devices \cup Codes \cup Media \cup {None}, since : 0 .. MaxNow, after : BOOLEAN ]

\* The tables, without the bound on the number of failures, and the requests.
Types ==
  /\ families \subseteq Families /\ trail \subseteq Families
  /\ devices \in [Devices -> {None} \cup DeviceRecord]
  /\ codes \in [Codes -> {None} \cup CodeRecord]
  /\ \A c \in Codes : codes[c] # None => codes[c].until <= now + CodeTtl
  /\ attempts \subseteq [id : Nat, at : 0 .. MaxNow]
  /\ media \in [Media -> {None} \cup Families]
  /\ files \subseteq Families \X {ContentOf(m) : m \in Media}
  /\ notes \in [Media -> {None} \cup NoteRecord]
  /\ ledger \subseteq Families \X Media
  /\ cameBy \in [Devices -> {None} \cup Codes]
  /\ now \in 0 .. MaxNow /\ begun \in 0 .. MaxRequests /\ faults \in 0 .. MaxFaults
  /\ out \subseteq Devices /\ corrected \subseteq Media
Requested == request \in [Requests -> Request]

\* The claims under way, and those that will write their failure, if they fail, within the
\* window that ends at t.
Claims == {r \in Requests : Busy(r) /\ request[r].op = "claim"}
ClaimsWithin(t) == {r \in Claims : request[r].since <= t /\ request[r].since + CodeTtl >= t}

\* Rows are numbered as they come, each by a claim that was made.
Numbered ==
  /\ IsFiniteSet(attempts) /\ \A row \in attempts : row.id \in 1 .. Cardinality(attempts)
  /\ Cardinality(attempts) + Cardinality(Claims) <= begun
\* Failures that were written, and those that still may be, are few in every window.
FewAtOnce == \A t \in 0 .. MaxNow :
  Cardinality(Within(t)) + Cardinality(ClaimsWithin(t)) <= MaxAttempts + Cardinality(Requests) - 1
Counted == Numbered /\ FewAtOnce

\* What a request is about, wherever it is.
Ops == \A r \in Requests :
  /\ At(r, "seen") => request[r].op \in Asked
  /\ request[r].at \in {"open"} => request[r].op = "open"
  /\ request[r].at \in {"revoke", "revoking"} => request[r].op = "revoke"
  /\ request[r].at \in {"child", "naming"} => request[r].op = "child"
  /\ request[r].at \in {"export", "publishing"} => request[r].op = "export"
  /\ request[r].at \in {"upload", "recording"} => request[r].op = "upload"
  /\ request[r].at \in {"keep", "keeping", "remember"} => request[r].op = "keep"
  /\ request[r].at \in {"correct", "correcting"} => request[r].op = "correct"
  /\ request[r].at \in {"erase", "emptying", "folder", "unlisting", "rows", "trail"} => request[r].op = "erase"
  /\ request[r].at \in {"find", "consume", "join", "wrong"} => request[r].op = "claim"
  /\ request[r].at \in {"idle", "founding", "pairing"} => request[r].op = None

\* What it has read.
ReadsOf(r) ==
  /\ request[r].at \notin {"idle", "find", "wrong"} => Fam(r) \in Families
  /\ request[r].op = "revoke" => What(r) \in Devices
  /\ request[r].op \in {"keep", "correct"} \/ At(r, "recording") => What(r) \in Media
  /\ request[r].op = "claim" => What(r) \in Codes \cup {None}
  /\ request[r].at \in {"consume", "join"} => What(r) \in Codes
  /\ At(r, "seen") => /\ request[r].who \in Devices
                      /\ request[r].row \in DeviceRecord /\ request[r].row.family = Fam(r)
  /\ At(r, "revoking") => request[r].row \in DeviceRecord /\ request[r].row.family = Fam(r)
  /\ At(r, "consume") => /\ request[r].row \in CodeRecord /\ request[r].row.family = Fam(r)
                         /\ request[r].row.until <= now + CodeTtl
  /\ request[r].at \in {"keeping", "correcting"} => request[r].row \in NoteRecord /\ request[r].row.family = Fam(r)
Reads == \A r \in Requests : ReadsOf(r)

\* Every id in use was given out.
GivenDevices ==
  \A d \in Devices : /\ devices[d] # None \/ cameBy[d] # None \/ d \in out => d \in given
                     /\ devices[d] # None => devices[d].family \in given
                     /\ cameBy[d] # None => cameBy[d] \in given
GivenCodes == \A c \in Codes : codes[c] # None => c \in given /\ codes[c].family \in given
GivenMedia ==
  \A m \in Media : media[m] # None \/ notes[m] # None \/ (\E f \in Families : <<f, m>> \in ledger) => m \in given
GivenTo(r) ==
  /\ Fam(r) # None => Fam(r) \in given
  /\ At(r, "seen") => request[r].who \in given
  /\ request[r].at \in {"consume", "join", "revoking", "recording", "keeping", "remember", "correcting"} => What(r) \in given
GivenOut == \A r \in Requests : GivenTo(r)

\* Whatever two know of one device, code or recording names one family.
DeviceOf(d, f) ==
  \/ devices[d] # None /\ devices[d].family = f
  \/ \E r \in Requests : /\ Fam(r) = f
                         /\ (At(r, "seen") /\ request[r].who = d) \/ (At(r, "revoking") /\ What(r) = d)
OneFamilyPerDevice == \A d \in Devices : \A f, g \in Families : DeviceOf(d, f) /\ DeviceOf(d, g) => f = g
CodeOf(c, f) ==
  \/ codes[c] # None /\ codes[c].family = f
  \/ \E r \in Requests : Fam(r) = f /\ At(r, "consume") /\ What(r) = c
OneFamilyPerCode == \A c \in Codes : \A f, g \in Families : CodeOf(c, f) /\ CodeOf(c, g) => f = g
RecordingOf(m, f) ==
  \/ media[m] = f \/ (notes[m] # None /\ notes[m].family = f) \/ <<f, m>> \in ledger
  \/ \E r \in Requests : /\ Fam(r) = f /\ What(r) = m
                         /\ request[r].at \in {"recording", "keeping", "remember", "correcting"}
OneFamilyPerRecording == \A m \in Media : \A f, g \in Families : RecordingOf(m, f) /\ RecordingOf(m, g) => f = g

\* A late request and an erasure of its family are together only where the family is disturbed, so
\* that a late request finds its family there or disturbed.
LateIsDisturbing ==
  /\ \A q, r \in Requests :
       Busy(q) /\ request[q].op = "erase" /\ Busy(r) /\ request[r].op \in Late /\ Fam(q) = Fam(r)
         => Fam(r) \in disturbed
  /\ \A r \in Requests : Busy(r) /\ request[r].op \in Late => Fam(r) \in families \cup disturbed

\* An erasure finds nothing again of what it took away.
TakenAway == \A r \in Requests : Fam(r) \in disturbed \/
  /\ request[r].at \in {"unlisting", "rows"} => OfFamily(Fam(r)) = {}
  /\ At(r, "rows") => \A m \in Media : media[m] # Fam(r)

\* Whoever was being let in while a device was revoked is known.
Overtaken == \A r \in Requests : At(r, "seen") /\ request[r].who \in out => request[r].who \in overtaken

\* A family that is being founded is nobody's yet.
Unknown == \A r \in Requests : At(r, "founding") =>
  /\ \A d \in Devices : devices[d] # None => devices[d].family # Fam(r)
  /\ \A c \in Codes : codes[c] # None => codes[c].family # Fam(r)
  /\ \A q \in Requests \ {r} : Fam(q) # Fam(r)

\* A keep that is not yet answered is the only one of its recording, and there is no note yet;
\* a correction of a note that is gone comes too late to bring it back.
KeepingOf(r, m) == request[r].at \in {"keeping", "remember"} /\ What(r) = m
CorrectedAreThere == \A m \in corrected : notes[m] # None
KeptIsAnswered == \A m \in Media \ shaky : notes[m] # None =>
  \/ notes[m].family \in disturbed \/ Answered(m)
  \/ \E r \in Requests : At(r, "remember") /\ What(r) = m
KeepsAlone == \A r \in Requests : At(r, "keeping") /\ What(r) \notin shaky =>
  /\ \A q \in Requests \ {r} : ~ KeepingOf(q, What(r))
  /\ Fam(r) \in disturbed \/ notes[What(r)] = None
CorrectsInTime == \A r \in Requests :
  At(r, "correcting") /\ notes[What(r)] = None => Fam(r) \in disturbed \/ Fam(r) \notin families

\* A code is open only until somebody goes through.
OpenIsUnused == \A c \in Codes : codes[c] # None /\ ~ codes[c].claimed =>
  /\ \A r \in Requests : ~ (At(r, "join") /\ What(r) = c)
  /\ \A d \in Devices : cameBy[d] # c
GoesAlone == \A c \in Codes \ together :
  \A r \in Requests : request[r].at \in {"consume", "join"} /\ What(r) = c =>
    /\ \A q \in Requests \ {r} : ~ (request[q].at \in {"consume", "join"} /\ What(q) = c)
    /\ \A d \in Devices : cameBy[d] # c
CameAlone == \A c \in Codes \ together : \A d, e \in Devices : cameBy[d] = c /\ cameBy[e] = c => d = e

\* A box is open only until a family is founded.
BoxDoor == Box \notin together =>
  /\ \A q, r \in Requests : At(q, "founding") /\ At(r, "founding") => q = r
  /\ \A r \in Requests : At(r, "founding") => families \subseteq disturbed
  /\ \A f, g \in families \ disturbed : f = g

IInv == /\ Types /\ Requested /\ Counted /\ Ops /\ Reads
        /\ GivenDevices /\ GivenCodes /\ GivenMedia /\ GivenOut
        /\ OneFamilyPerDevice /\ OneFamilyPerCode /\ OneFamilyPerRecording
        /\ LateIsDisturbing /\ TakenAway /\ NothingOutlivesTheFamily /\ Overtaken /\ RevokedStaysOut /\ Unknown
        /\ CorrectedAreThere /\ KeptIsAnswered /\ KeepsAlone /\ CorrectsInTime /\ CorrectionStands
        /\ OpenIsUnused /\ GoesAlone /\ CameAlone /\ BoxDoor

---------------------------------------------------------------------------
(* How a request moves.                                                    *)

\* Of request r, what a step leaves as it was.
Same(r) == request'[r] = request[r]
SameOthers(r) == \A q \in Requests \ {r} : Same(q)
SameCall(r) == /\ request'[r].op = request[r].op /\ request'[r].who = request[r].who
               /\ request'[r].since = request[r].since /\ request'[r].after = request[r].after

LEMMA OneMoves ==
  ASSUME Requested, NEW r \in Requests, NEW new, request' = [request EXCEPT ![r] = new]
  PROVE  SameOthers(r) /\ request'[r] = new /\ (new \in Request => Requested')
BY DEF Requested, SameOthers, Same

\* What nobody learns anew is still known of one family.
LEMMA NoNewDevice ==
  ASSUME OneFamilyPerDevice, NEW r \in Requests, SameOthers(r), devices' = devices,
         At(r, "seen")' => \A f : Fam(r)' = f => DeviceOf(request'[r].who, f),
         At(r, "revoking")' => \A f : Fam(r)' = f => DeviceOf(What(r)', f)
  PROVE  OneFamilyPerDevice'
<1>1. ASSUME NEW d \in Devices, NEW f \in Families, DeviceOf(d, f)' PROVE DeviceOf(d, f)
  BY <1>1 DEF DeviceOf, SameOthers, Same, At, Fam, What
<1> QED BY <1>1 DEF OneFamilyPerDevice

LEMMA NoNewCode ==
  ASSUME OneFamilyPerCode, NEW r \in Requests, SameOthers(r), codes' = codes,
         At(r, "consume")' => \A f : Fam(r)' = f => CodeOf(What(r)', f)
  PROVE  OneFamilyPerCode'
<1>1. ASSUME NEW c \in Codes, NEW f \in Families, CodeOf(c, f)' PROVE CodeOf(c, f)
  BY <1>1 DEF CodeOf, SameOthers, Same, At, Fam, What
<1> QED BY <1>1 DEF OneFamilyPerCode

LEMMA NoNewRecording ==
  ASSUME OneFamilyPerRecording, NEW r \in Requests, SameOthers(r), media' = media, notes' = notes, ledger' = ledger,
         request'[r].at \in {"recording", "keeping", "remember", "correcting"} =>
           \A f : Fam(r)' = f => RecordingOf(What(r)', f)
  PROVE  OneFamilyPerRecording'
<1>1. ASSUME NEW m \in Media, NEW f \in Families, RecordingOf(m, f)' PROVE RecordingOf(m, f)
  BY <1>1 DEF RecordingOf, SameOthers, Same, At, Fam, What
<1> QED BY <1>1 DEF OneFamilyPerRecording

\* Nobody goes through a door.
LEMMA NobodyGoes ==
  ASSUME GoesAlone, BoxDoor, NEW r \in Requests, SameOthers(r),
         UNCHANGED <<codes, cameBy, families, disturbed, together>>,
         request'[r].at \notin {"consume", "join", "founding"}
  PROVE  GoesAlone' /\ BoxDoor'
<1>1. \A q \in Requests : request'[q].at \in {"consume", "join", "founding"} => Same(q)
  BY DEF SameOthers
<1>2. GoesAlone'
  BY <1>1 DEF GoesAlone, Same, At, What
<1>3. BoxDoor'
  BY <1>1 DEF BoxDoor, Same, At, What, Box
<1> QED BY <1>2, <1>3

\* Nothing is kept, and nobody who keeps goes away.
LEMMA NothingKept ==
  ASSUME KeptIsAnswered, NEW r \in Requests, SameOthers(r), UNCHANGED <<notes, ledger, disturbed, shaky>>,
         ~ At(r, "remember")
  PROVE  KeptIsAnswered'
<1>1. \A q \in Requests : At(q, "remember") => Same(q)
  BY DEF SameOthers
<1> QED BY <1>1 DEF KeptIsAnswered, Answered, Same, At, What

\* What the others have read, and were given, is as it was.
LEMMA OthersRead ==
  Reads => \A r \in Requests :
    /\ ReadsOf(r)
    /\ SameOthers(r) /\ now' = now /\ ReadsOf(r)' => Reads'
BY DEF Reads, ReadsOf, SameOthers, Same, At, Fam, What

LEMMA OthersGiven ==
  GivenOut => \A r \in Requests :
    /\ GivenTo(r)
    /\ SameOthers(r) /\ given \subseteq given' /\ GivenTo(r)' => GivenOut'
BY DEF GivenOut, GivenTo, SameOthers, Same, At, Fam, What

\* It goes on with what it has.
LEMMA GoesMeans ==
  Requested => \A r \in Requests : \A there : Goes(r, there) =>
    /\ SameOthers(r) /\ SameCall(r) /\ request'[r].at = there
    /\ request'[r].fam = request[r].fam /\ request'[r].row = request[r].row
    /\ request'[r].what = request[r].what
    /\ there \in Ats => Requested'
BY DEF Requested, Request, Goes, SameOthers, Same, SameCall

\* It goes on with a row it has read.
LEMMA HoldsMeans ==
  Requested => \A r \in Requests : \A there, row : Holds(r, there, row) =>
    /\ SameOthers(r) /\ SameCall(r) /\ request'[r].at = there
    /\ request'[r].fam = request[r].fam /\ request'[r].row = row
    /\ request'[r].what = request[r].what
    /\ there \in Ats /\ row \in Rows => Requested'
<1> SUFFICES ASSUME Requested, NEW r \in Requests, NEW there, NEW row, Holds(r, there, row)
             PROVE  /\ SameOthers(r) /\ SameCall(r) /\ request'[r].at = there
                    /\ request'[r].fam = request[r].fam /\ request'[r].row = row
                    /\ request'[r].what = request[r].what
                    /\ there \in Ats /\ row \in Rows => Requested'
    OBVIOUS
<1> DEFINE new == [request[r] EXCEPT !.at = there, !.row = row]
<1>1. request' = [request EXCEPT ![r] = new]
  BY DEF Requested, Request, Holds
<1>2. /\ new.op = request[r].op /\ new.who = request[r].who /\ new.since = request[r].since
      /\ new.after = request[r].after /\ new.at = there /\ new.what = request[r].what
      /\ new.fam = request[r].fam /\ new.row = row
  BY DEF Requested, Request
<1>3. there \in Ats /\ row \in Rows => new \in Request
  BY DEF Requested, Request
<1> HIDE DEF new
<1> QED BY <1>1, <1>2, <1>3, OneMoves DEF SameCall

\* It found a code.
Finds(r, row, fam) == request' = [request EXCEPT ![r] = [@ EXCEPT !.at = "consume", !.row = row, !.fam = fam]]
LEMMA FindsMeans ==
  Requested => \A r \in Requests : \A row, fam : Finds(r, row, fam) =>
      /\ SameOthers(r) /\ SameCall(r) /\ request'[r].at = "consume"
      /\ request'[r].fam = fam /\ request'[r].row = row /\ request'[r].what = request[r].what
      /\ row \in Rows /\ fam \in Families => Requested'
<1> SUFFICES ASSUME Requested, NEW r \in Requests, NEW row, NEW fam, Finds(r, row, fam)
             PROVE  /\ SameOthers(r) /\ SameCall(r) /\ request'[r].at = "consume"
                    /\ request'[r].fam = fam /\ request'[r].row = row /\ request'[r].what = request[r].what
                    /\ row \in Rows /\ fam \in Families => Requested'
    OBVIOUS
<1> DEFINE new == [request[r] EXCEPT !.at = "consume", !.row = row, !.fam = fam]
<1>1. request' = [request EXCEPT ![r] = new]
  BY DEF Requested, Request, Finds
<1>2. /\ new.op = request[r].op /\ new.who = request[r].who /\ new.since = request[r].since
      /\ new.after = request[r].after /\ new.at = "consume" /\ new.fam = fam /\ new.row = row
      /\ new.what = request[r].what
  BY DEF Requested, Request
<1>3. row \in Rows /\ fam \in Families => new \in Request
  <2>1. "consume" \in Ats
    BY DEF Ats
  <2> QED BY <2>1 DEF Requested, Request
<1> HIDE DEF new
<1> QED BY <1>1, <1>2, <1>3, OneMoves DEF SameCall
\* It ends.
LEMMA IdleIs ==
  /\ Idle.at = "idle" /\ Idle.op = None /\ Idle.who = None /\ Idle.fam = None
  /\ Idle.row = None /\ Idle.what = None /\ Idle.since = 0 /\ Idle.after = FALSE
  /\ Idle \in Request
<1>1. 0 \in 0 .. MaxNow /\ "idle" \in Ats
  BY HouseholdAssumption DEF HouseholdAssumption, Ats
<1> QED BY <1>1 DEF Idle, Request, Rows

LEMMA EndsMeans ==
  Requested => \A r \in Requests : Ends(r) =>
    /\ SameOthers(r) /\ request'[r].at = "idle" /\ request'[r].op = None /\ request'[r].who = None
    /\ request'[r].fam = None /\ request'[r].row = None /\ request'[r].what = None
    /\ request'[r].since = 0 /\ request'[r].after = FALSE
    /\ Requested'
BY IdleIs, OneMoves DEF Ends

LEMMA StopMeans ==
  Requested => \A some \in SUBSET Requests : Stop(some) =>
    /\ \A q \in Requests \ some : Same(q)
    /\ \A q \in some : /\ request'[q].at = "idle" /\ request'[q].op = None /\ request'[q].who = None
                       /\ request'[q].fam = None /\ request'[q].row = None /\ request'[q].what = None
                       /\ request'[q].since = 0 /\ request'[q].after = FALSE
    /\ faults < MaxFaults /\ faults' = faults + 1
    /\ shaky' = shaky \cup {What(r) : r \in {r \in some : At(r, "remember")}}
    /\ halted' = halted \cup {Fam(r) : r \in {r \in some : At(r, "trail")}}
    /\ UNCHANGED <<tables, attempts, files, trail, given, now, begun,
                   out, overtaken, cameBy, together, corrected, disturbed>>
    /\ Requested'
BY IdleIs DEF Requested, Stop, Same

\* It begins.
LEMMA ArrivesMeans ==
  Requested /\ Types => \A r \in Requests : Arrives(r) =>
    /\ At(r, "idle") /\ begun < MaxRequests /\ begun' = begun + 1
    /\ UNCHANGED <<tables, attempts, files, trail, given, now, faults,
                   out, overtaken, cameBy, together, corrected, shaky, halted>>
    /\ SameOthers(r) /\ Requested'
    /\ \E d \in Devices, op \in Asked : \E what \in Wanted(op) :
         /\ Authenticates(d)
         /\ request'[r].at = "seen" /\ request'[r].op = op /\ request'[r].who = d
         /\ request'[r].fam = devices[d].family /\ request'[r].row = devices[d]
         /\ request'[r].what = what /\ request'[r].since = 0 /\ request'[r].after = (d \in out)
         /\ disturbed' = IF Meets(r, op, devices[d].family) THEN disturbed \cup {devices[d].family} ELSE disturbed
<1> SUFFICES ASSUME Requested, Types, NEW r \in Requests, Arrives(r)
             PROVE  /\ At(r, "idle") /\ begun < MaxRequests /\ begun' = begun + 1
                    /\ UNCHANGED <<tables, attempts, files, trail, given, now, faults,
                                   out, overtaken, cameBy, together, corrected, shaky, halted>>
                    /\ SameOthers(r) /\ Requested'
                    /\ \E d \in Devices, op \in Asked : \E what \in Wanted(op) :
                         /\ Authenticates(d)
                         /\ request'[r].at = "seen" /\ request'[r].op = op /\ request'[r].who = d
                         /\ request'[r].fam = devices[d].family /\ request'[r].row = devices[d]
                         /\ request'[r].what = what /\ request'[r].since = 0
                         /\ request'[r].after = (d \in out)
                         /\ disturbed' = IF Meets(r, op, devices[d].family)
                                           THEN disturbed \cup {devices[d].family} ELSE disturbed
    OBVIOUS
<1>1. /\ At(r, "idle") /\ begun < MaxRequests /\ begun' = begun + 1
      /\ UNCHANGED <<tables, attempts, files, trail, given, now, faults,
                     out, overtaken, cameBy, together, corrected, shaky, halted>>
  BY DEF Arrives
<1>2. PICK d \in Devices, op \in Asked : \E what \in Wanted(op) :
           /\ Authenticates(d)
           /\ request' = [request EXCEPT ![r] =
                [Idle EXCEPT !.at = "seen", !.op = op, !.who = d, !.fam = devices[d].family,
                             !.row = devices[d], !.what = what, !.after = d \in out]]
           /\ disturbed' = IF Meets(r, op, devices[d].family) THEN disturbed \cup {devices[d].family} ELSE disturbed
  BY DEF Arrives, Asked
<1>3. PICK what \in Wanted(op) :
           request' = [request EXCEPT ![r] =
                [Idle EXCEPT !.at = "seen", !.op = op, !.who = d, !.fam = devices[d].family,
                             !.row = devices[d], !.what = what, !.after = d \in out]]
  BY <1>2
<1> DEFINE new == [Idle EXCEPT !.at = "seen", !.op = op, !.who = d, !.fam = devices[d].family,
                               !.row = devices[d], !.what = what, !.after = d \in out]
<1>4. /\ new.at = "seen" /\ new.op = op /\ new.who = d /\ new.fam = devices[d].family
      /\ new.row = devices[d] /\ new.what = what /\ new.since = 0 /\ new.after = (d \in out)
  BY DEF Idle
<1>5. new \in Request
  <2>1. devices[d] \in DeviceRecord
    BY <1>2 DEF Types, Authenticates
  <2>2. devices[d] \in Rows /\ devices[d].family \in Families
    BY <2>1 DEF Rows, DeviceRecord
  <2>3. what \in Devices \cup Codes \cup Media \cup {None}
    BY <1>2, <1>3 DEF Wanted, Asked
  <2>4. "seen" \in Ats
    BY DEF Ats
  <2>5. \A b \in BOOLEAN :
          [Idle EXCEPT !.at = "seen", !.op = op, !.who = d, !.fam = devices[d].family,
                       !.row = devices[d], !.what = what, !.after = b] \in Request
    BY <2>2, <2>3, <2>4, IdleIs DEF Request
  <2>6. (d \in out) \in BOOLEAN
    OBVIOUS
  <2> QED BY <2>5, <2>6
<1> HIDE DEF new
<1>6. request' = [request EXCEPT ![r] = new]
  BY <1>3 DEF new
<1>7. SameOthers(r) /\ Requested' /\ request'[r] = new
  BY <1>5, <1>6, OneMoves
<1>8. /\ request'[r].at = "seen" /\ request'[r].op = op /\ request'[r].who = d
      /\ request'[r].fam = devices[d].family /\ request'[r].row = devices[d]
      /\ request'[r].what = what /\ request'[r].since = 0 /\ request'[r].after = (d \in out)
  BY <1>4, <1>7, Zenon
<1>9. /\ Authenticates(d)
      /\ disturbed' = IF Meets(r, op, devices[d].family) THEN disturbed \cup {devices[d].family} ELSE disturbed
  BY <1>2, Zenon
<1>10. \E what_1 \in Wanted(op) :
         /\ Authenticates(d)
         /\ request'[r].at = "seen" /\ request'[r].op = op /\ request'[r].who = d
         /\ request'[r].fam = devices[d].family /\ request'[r].row = devices[d]
         /\ request'[r].what = what_1 /\ request'[r].since = 0 /\ request'[r].after = (d \in out)
         /\ disturbed' = IF Meets(r, op, devices[d].family) THEN disturbed \cup {devices[d].family} ELSE disturbed
  BY <1>3, <1>8, <1>9, Zenon
<1> QED BY <1>1, <1>7, <1>10, Zenon

LEMMA ClaimBeginsMeans ==
  Requested /\ Types => \A r \in Requests : ClaimBegins(r) =>
    /\ At(r, "idle") /\ begun < MaxRequests /\ begun' = begun + 1
    /\ UNCHANGED <<tables, attempts, files, trail, given, now, faults, histories>>
    /\ SameOthers(r) /\ Requested'
    /\ request'[r].at = "find" /\ request'[r].op = "claim" /\ request'[r].who = None
    /\ request'[r].fam = None /\ request'[r].row = None /\ request'[r].what \in Typed
    /\ request'[r].since = now /\ request'[r].after = FALSE
<1> SUFFICES ASSUME Requested, Types, NEW r \in Requests, ClaimBegins(r)
             PROVE  /\ SameOthers(r) /\ Requested'
                    /\ request'[r].at = "find" /\ request'[r].op = "claim" /\ request'[r].who = None
                    /\ request'[r].fam = None /\ request'[r].row = None /\ request'[r].what \in Typed
                    /\ request'[r].since = now /\ request'[r].after = FALSE
    BY DEF ClaimBegins
<1>1. PICK typed \in Typed : request' = [request EXCEPT ![r] =
           [Idle EXCEPT !.at = "find", !.op = "claim", !.what = typed, !.since = now]]
  BY DEF ClaimBegins
<1> DEFINE new == [Idle EXCEPT !.at = "find", !.op = "claim", !.what = typed, !.since = now]
<1>2. /\ new.at = "find" /\ new.op = "claim" /\ new.who = None /\ new.fam = None
      /\ new.row = None /\ new.what = typed /\ new.since = now /\ new.after = FALSE
  BY DEF Idle
<1>3. new \in Request
  <2>1. "find" \in Ats /\ typed \in Codes \cup {None} /\ now \in 0 .. MaxNow
    BY DEF Ats, Typed, Types
  <2> QED BY <2>1, IdleIs DEF Request, Idle
<1> HIDE DEF new
<1>4. request' = [request EXCEPT ![r] = new]
  BY <1>1 DEF new
<1> QED BY <1>2, <1>3, <1>4, OneMoves

LEMMA CountFamiliesMeans ==
  Requested => \A r \in Requests : CountFamilies(r) =>
    /\ At(r, "idle") /\ begun < MaxRequests /\ begun' = begun + 1 /\ families = {}
    /\ together' = IF \E q \in Requests : At(q, "founding") THEN together \cup {Box} ELSE together
    /\ UNCHANGED <<tables, attempts, files, trail, now, faults,
                   out, overtaken, cameBy, corrected, shaky, disturbed, halted>>
    /\ SameOthers(r) /\ Requested'
    /\ request'[r].at = "founding" /\ request'[r].op = None /\ request'[r].who = None
    /\ request'[r].row = None /\ request'[r].what = None
    /\ request'[r].since = 0 /\ request'[r].after = FALSE
    /\ request'[r].fam \in Families \ given /\ given' = given \cup {request'[r].fam}
<1> SUFFICES ASSUME Requested, NEW r \in Requests, CountFamilies(r)
             PROVE  /\ SameOthers(r) /\ Requested'
                    /\ request'[r].at = "founding" /\ request'[r].op = None /\ request'[r].who = None
                    /\ request'[r].row = None /\ request'[r].what = None
                    /\ request'[r].since = 0 /\ request'[r].after = FALSE
                    /\ request'[r].fam \in Families \ given /\ given' = given \cup {request'[r].fam}
    BY DEF CountFamilies, Taken
<1>1. PICK f \in Families \ given :
           /\ request' = [request EXCEPT ![r] = [Idle EXCEPT !.at = "founding", !.fam = f]]
           /\ given' = given \cup {f}
  BY DEF CountFamilies
<1> DEFINE new == [Idle EXCEPT !.at = "founding", !.fam = f]
<1>2. /\ new.at = "founding" /\ new.op = None /\ new.who = None /\ new.fam = f
      /\ new.row = None /\ new.what = None /\ new.since = 0 /\ new.after = FALSE
  BY DEF Idle
<1>3. new \in Request
  <2>1. "founding" \in Ats
    BY DEF Ats
  <2> QED BY <2>1, IdleIs DEF Request, Idle
<1> HIDE DEF new
<1>4. request' = [request EXCEPT ![r] = new]
  BY <1>1 DEF new
<1>5. SameOthers(r) /\ Requested' /\ request'[r] = new
  BY <1>3, <1>4, OneMoves
<1> QED BY <1>1, <1>2, <1>5

\* It wrote the bytes of an upload.
LEMMA UploadsMeans ==
  Requested => \A r \in Requests : \A m :
    request' = [request EXCEPT ![r] = [@ EXCEPT !.at = "recording", !.what = m]] =>
      /\ SameOthers(r) /\ SameCall(r) /\ request'[r].at = "recording"
      /\ request'[r].fam = request[r].fam /\ request'[r].row = request[r].row
      /\ request'[r].what = m
      /\ m \in Media => Requested'
<1> SUFFICES ASSUME Requested, NEW r \in Requests, NEW m,
                    request' = [request EXCEPT ![r] = [@ EXCEPT !.at = "recording", !.what = m]]
             PROVE  /\ SameOthers(r) /\ SameCall(r) /\ request'[r].at = "recording"
                    /\ request'[r].fam = request[r].fam /\ request'[r].row = request[r].row
                    /\ request'[r].what = m
                    /\ m \in Media => Requested'
    OBVIOUS
<1> DEFINE new == [request[r] EXCEPT !.at = "recording", !.what = m]
<1>1. request' = [request EXCEPT ![r] = new]
  BY DEF Requested, Request
<1>2. /\ new.op = request[r].op /\ new.who = request[r].who /\ new.since = request[r].since
      /\ new.after = request[r].after /\ new.at = "recording" /\ new.what = m
      /\ new.fam = request[r].fam /\ new.row = request[r].row
  BY DEF Requested, Request
<1>3. m \in Media => new \in Request
  <2>1. "recording" \in Ats
    BY DEF Ats
  <2> QED BY <2>1 DEF Requested, Request
<1> HIDE DEF new
<1> QED BY <1>1, <1>2, <1>3, OneMoves DEF SameCall

LEMMA UploadBytesMeans ==
  Requested => \A r \in Requests : UploadBytes(r) =>
    /\ At(r, "upload") /\ SameOthers(r) /\ SameCall(r) /\ Requested'
    /\ request'[r].at = "recording" /\ request'[r].fam = request[r].fam /\ request'[r].row = request[r].row
    /\ request'[r].what \in Media \ given /\ given' = given \cup {request'[r].what}
    /\ files' = files \cup {<<Fam(r), ContentOf(request'[r].what)>>}
    /\ UNCHANGED <<tables, attempts, trail, counts, histories>>
<1> SUFFICES ASSUME Requested, NEW r \in Requests, UploadBytes(r)
             PROVE  /\ SameOthers(r) /\ SameCall(r) /\ Requested'
                    /\ request'[r].at = "recording" /\ request'[r].fam = request[r].fam
                    /\ request'[r].row = request[r].row
                    /\ request'[r].what \in Media \ given /\ given' = given \cup {request'[r].what}
                    /\ files' = files \cup {<<Fam(r), ContentOf(request'[r].what)>>}
    BY DEF UploadBytes
<1>1. PICK m \in Media \ given :
        /\ files' = files \cup {<<Fam(r), ContentOf(m)>>} /\ given' = given \cup {m}
        /\ request' = [request EXCEPT ![r] = [@ EXCEPT !.at = "recording", !.what = m]]
  BY DEF UploadBytes
<1>2. /\ SameOthers(r) /\ SameCall(r) /\ request'[r].at = "recording"
      /\ request'[r].fam = request[r].fam /\ request'[r].row = request[r].row
      /\ request'[r].what = m /\ Requested'
  BY <1>1, UploadsMeans, Zenon
<1> QED BY <1>1, <1>2

LEMMA FindCodeMeans ==
  Requested /\ Types /\ Ops /\ Reads => \A r \in Requests : FindCode(r) =>
    /\ At(r, "find") /\ SameOthers(r) /\ SameCall(r) /\ Requested' /\ request'[r].what = What(r)
    /\ UNCHANGED <<tables, attempts, files, trail, given, counts,
                   out, overtaken, cameBy, corrected, shaky, disturbed, halted>>
    /\ \/ /\ What(r) \in Codes /\ codes[What(r)] # None /\ ~ codes[What(r)].claimed
          /\ codes[What(r)].family \in families
          /\ request'[r].at = "consume" /\ request'[r].row = codes[What(r)]
          /\ request'[r].fam = codes[What(r)].family
          /\ together' = IF \E q \in Requests : At(q, "consume") /\ What(q) = What(r)
                           THEN together \cup {What(r)} ELSE together
       \/ /\ request'[r].at = "wrong" /\ request'[r].row = request[r].row /\ request'[r].fam = request[r].fam
          /\ together' = together
<1> SUFFICES ASSUME Requested, Types, Ops, Reads, NEW r \in Requests, FindCode(r)
             PROVE  /\ SameOthers(r) /\ SameCall(r) /\ Requested' /\ request'[r].what = What(r)
                    /\ \/ /\ What(r) \in Codes /\ codes[What(r)] # None /\ ~ codes[What(r)].claimed
                          /\ codes[What(r)].family \in families
                          /\ request'[r].at = "consume" /\ request'[r].row = codes[What(r)]
                          /\ request'[r].fam = codes[What(r)].family
                          /\ together' = IF \E q \in Requests : At(q, "consume") /\ What(q) = What(r)
                                           THEN together \cup {What(r)} ELSE together
                       \/ /\ request'[r].at = "wrong" /\ request'[r].row = request[r].row
                          /\ request'[r].fam = request[r].fam /\ together' = together
    BY DEF FindCode
<1> DEFINE row == CodeRow(What(r))
<1>1. CASE IsOpen(row, request[r].since) /\ row.family \in families
  <2>1. What(r) \in Codes
    BY <1>1 DEF IsOpen, CodeRow, FindCode, Ops, Reads, ReadsOf, At
  <2>2. row = codes[What(r)] /\ codes[What(r)] # None /\ ~ codes[What(r)].claimed
    BY <1>1, <2>1, HouseholdAssumption DEF HouseholdAssumption, IsOpen, CodeRow
  <2>3. row \in Rows /\ row.family \in Families
    BY <2>1, <2>2, <1>1 DEF Types, Rows
  <2>4. /\ Finds(r, row, row.family)
        /\ together' = IF \E q \in Requests : At(q, "consume") /\ What(q) = What(r)
                         THEN together \cup {What(r)} ELSE together
    BY <1>1 DEF FindCode, Finds
  <2> HIDE DEF row
  <2>5. /\ SameOthers(r) /\ SameCall(r) /\ request'[r].at = "consume" /\ request'[r].fam = row.family
        /\ request'[r].row = row /\ request'[r].what = request[r].what /\ Requested'
    BY <2>3, <2>4, FindsMeans
  <2> QED BY <1>1, <2>1, <2>2, <2>4, <2>5 DEF What
<1>2. CASE ~ (IsOpen(row, request[r].since) /\ row.family \in families)
  <2>1. Goes(r, "wrong") /\ together' = together
    BY <1>2 DEF FindCode
  <2>2. "wrong" \in Ats
    BY DEF Ats
  <2> QED BY <2>1, <2>2, GoesMeans DEF What, SameCall
<1> QED BY <1>1, <1>2

---------------------------------------------------------------------------
(* What the steps that read or write a row do.                             *)

WentOn(r, there, row) ==
  /\ SameCall(r) /\ request'[r].at = there /\ request'[r].fam = request[r].fam
  /\ request'[r].row = row /\ request'[r].what = request[r].what
Idled(r) ==
  /\ request'[r].at = "idle" /\ request'[r].op = None /\ request'[r].who = None
  /\ request'[r].fam = None /\ request'[r].row = None /\ request'[r].what = None
  /\ request'[r].since = 0 /\ request'[r].after = FALSE
Moved(r) == SameOthers(r) /\ Requested'

DeviceWritten(d, row) ==
  /\ devices'[d] = row /\ \A x \in Devices : x # d => devices'[x] = devices[x]
  /\ devices' \in [Devices -> {None} \cup DeviceRecord]
CodeWritten(c, row) ==
  /\ codes'[c] = row /\ \A x \in Codes : x # c => codes'[x] = codes[x]
  /\ codes' \in [Codes -> {None} \cup CodeRecord]
NoteWritten(m, row) ==
  /\ notes'[m] = row /\ \A x \in Media : x # m => notes'[x] = notes[x]
  /\ notes' \in [Media -> {None} \cup NoteRecord]

\* Nothing but that the request is over.
Ended(r) ==
  /\ Moved(r) /\ Idled(r) /\ ~ At(r, "remember") /\ ~ At(r, "trail")
  /\ UNCHANGED <<tables, attempts, files, trail, given, counts, histories>>

\* A device is seen: the row that was read is there again.
IsSeen(r) ==
  /\ At(r, "seen") /\ Moved(r) /\ WentOn(r, request[r].op, request[r].row) /\ request[r].op \in Asked
  /\ request[r].who \in Devices /\ Fam(r) \in Families
  /\ request[r].row \in DeviceRecord /\ request[r].row.family = Fam(r)
  /\ devices[request[r].who] # None \/ Fam(r) \in families
  /\ DeviceWritten(request[r].who, request[r].row)
  /\ UNCHANGED <<families, codes, media, notes, ledger, attempts, files, trail, given, counts, histories>>

\* A row is read, to be written later.
Reading(r, there, row) ==
  /\ Moved(r) /\ WentOn(r, there, row) /\ row.family = Fam(r) /\ Fam(r) \in Families
  /\ UNCHANGED <<tables, attempts, files, trail, given, counts,
                 out, overtaken, cameBy, together, corrected, disturbed, halted>>
RevokeHolds(r, row) ==
  /\ At(r, "revoke") /\ Reading(r, "revoking", row) /\ What(r) \in Devices
  /\ row \in DeviceRecord /\ devices[What(r)] # None /\ row = devices[What(r)] /\ shaky' = shaky
CorrectHolds(r, row) ==
  /\ At(r, "correct") /\ Reading(r, "correcting", row) /\ What(r) \in Media
  /\ row \in NoteRecord /\ notes[What(r)] # None /\ row = notes[What(r)] /\ shaky' = shaky
KeepHolds(r, row) ==
  /\ At(r, "keep") /\ Reading(r, "keeping", row) /\ What(r) \in Media /\ row \in NoteRecord
  /\ ~ Answered(What(r)) /\ Fam(r) \in families /\ media[What(r)] = Fam(r)
  /\ \/ shaky' = shaky \cup {What(r)}
     \/ shaky' = shaky /\ \A q \in Requests \ {r} : ~ KeepingOf(q, What(r))

\* A device is revoked.
IsRevoked(r, row) ==
  /\ At(r, "revoking") /\ Moved(r) /\ Idled(r) /\ What(r) \in Devices /\ Fam(r) \in Families
  /\ devices[What(r)] # None \/ Fam(r) \in families
  /\ row \in DeviceRecord /\ row.revoked /\ row.family = Fam(r) /\ DeviceWritten(What(r), row)
  /\ trail' = trail \cup {Fam(r)} /\ out' = out \cup {What(r)}
  /\ \/ overtaken' = overtaken \cup {What(r)}
     \/ overtaken' = overtaken /\ \A q \in Requests : ~ (At(q, "seen") /\ request[q].who = What(r))
  /\ UNCHANGED <<families, codes, media, notes, ledger, attempts, files, given, counts,
                 cameBy, together, corrected, shaky, disturbed, halted>>

\* A device is paired, and a code is opened.
Paired(r, d, by) ==
  /\ Moved(r) /\ Idled(r) /\ Fam(r) \in families /\ Fam(r) \in Families
  /\ d \in Devices /\ d \notin given /\ given' = given \cup {d}
  /\ devices'[d].family = Fam(r) /\ ~ devices'[d].revoked
  /\ \A x \in Devices : x # d => devices'[x] = devices[x]
  /\ devices' \in [Devices -> {None} \cup DeviceRecord]
  /\ cameBy'[d] = by /\ \A x \in Devices : x # d => cameBy'[x] = cameBy[x]
  /\ cameBy' \in [Devices -> {None} \cup Codes]
  /\ trail' = trail \cup {Fam(r)}
  /\ UNCHANGED <<families, codes, media, notes, ledger, attempts, files, counts,
                 out, overtaken, together, corrected, shaky, disturbed, halted>>
FoundersIn(r, d) == At(r, "pairing") /\ Paired(r, d, None)
JoinedBy(r, d) == At(r, "join") /\ What(r) \in Codes /\ Paired(r, d, What(r))
Opened(r, c) ==
  /\ At(r, "open") /\ Moved(r) /\ Idled(r) /\ Fam(r) \in families /\ Fam(r) \in Families
  /\ c \in Codes /\ c \notin given /\ given' = given \cup {c}
  /\ codes'[c].family = Fam(r) /\ codes'[c].until = now + CodeTtl /\ ~ codes'[c].claimed
  /\ \A x \in Codes : x # c => codes'[x] = codes[x]
  /\ codes' \in [Codes -> {None} \cup CodeRecord]
  /\ UNCHANGED <<families, devices, media, notes, ledger, attempts, files, trail, counts, histories>>

\* A code is used up.
Consumed(r, row) ==
  /\ At(r, "consume") /\ Moved(r) /\ WentOn(r, "join", request[r].row) /\ What(r) \in Codes
  /\ Fam(r) \in Families
  /\ codes[What(r)] # None \/ Fam(r) \in families
  /\ row \in CodeRecord /\ row.claimed /\ row.family = Fam(r) /\ row.until <= now + CodeTtl
  /\ CodeWritten(What(r), row)
  /\ UNCHANGED <<families, devices, media, notes, ledger, attempts, files, trail, given, counts, histories>>

\* A recording is kept, and its words corrected.
IsKept(r) ==
  /\ At(r, "keeping") /\ Moved(r) /\ WentOn(r, "remember", request[r].row)
  /\ What(r) \in Media /\ Fam(r) \in families /\ Fam(r) \in Families
  /\ request[r].row \in NoteRecord /\ request[r].row.family = Fam(r) /\ request[r].row # None
  /\ NoteWritten(What(r), request[r].row) /\ trail' = trail \cup {Fam(r)}
  /\ UNCHANGED <<families, devices, codes, media, ledger, attempts, files, given, counts, histories>>
IsCorrected(r, row) ==
  /\ At(r, "correcting") /\ Moved(r) /\ Idled(r) /\ What(r) \in Media /\ Fam(r) \in Families
  /\ notes[What(r)] # None \/ Fam(r) \in families
  /\ row \in NoteRecord /\ row.words = "human" /\ row.family = Fam(r) /\ row # None
  /\ NoteWritten(What(r), row)
  /\ trail' = trail \cup {Fam(r)} /\ corrected' = corrected \cup {What(r)}
  /\ UNCHANGED <<families, devices, codes, media, ledger, attempts, files, given, counts,
                 out, overtaken, cameBy, together, shaky, disturbed, halted>>

\* The rows of a family are taken away.
Unlisted(r) ==
  /\ At(r, "unlisting") /\ Moved(r) /\ WentOn(r, "rows", request[r].row) /\ Fam(r) \in Families
  /\ \A m \in Media : IF media[m] = Fam(r) THEN media'[m] = None ELSE media'[m] = media[m]
  /\ media' \in [Media -> {None} \cup Families]
  /\ UNCHANGED <<families, devices, codes, notes, ledger, attempts, files, trail, given, counts, histories>>
Erased(r) ==
  /\ At(r, "rows") /\ Moved(r) /\ WentOn(r, "trail", request[r].row) /\ Fam(r) \in Families
  /\ families' = families \ {Fam(r)}
  /\ \A d \in Devices : IF devices[d] # None /\ devices[d].family = Fam(r)
                          THEN devices'[d] = None ELSE devices'[d] = devices[d]
  /\ \A c \in Codes : IF codes[c] # None /\ codes[c].family = Fam(r)
                        THEN codes'[c] = None ELSE codes'[c] = codes[c]
  /\ \A m \in Media : IF notes[m] # None /\ notes[m].family = Fam(r)
                        THEN notes'[m] = None ELSE notes'[m] = notes[m]
  /\ devices' \in [Devices -> {None} \cup DeviceRecord]
  /\ codes' \in [Codes -> {None} \cup CodeRecord]
  /\ notes' \in [Media -> {None} \cup NoteRecord]
  /\ ledger' \subseteq ledger
  /\ \A f, m : <<f, m>> \in ledger => (<<f, m>> \in ledger' <=> f # Fam(r))
  /\ corrected' \subseteq corrected /\ \A m \in corrected : m \in corrected' <=> notes'[m] # None
  /\ UNCHANGED <<media, attempts, files, trail, given, counts,
                 out, overtaken, cameBy, together, shaky, disturbed, halted>>

Sound == Types /\ Requested /\ Ops /\ Reads

LEMMA RowsWritten ==
  Types =>
    /\ \A d \in Devices : \A row \in DeviceRecord : devices' = [devices EXCEPT ![d] = row] =>
         /\ devices'[d] = row /\ \A e \in Devices : e # d => devices'[e] = devices[e]
         /\ devices' \in [Devices -> {None} \cup DeviceRecord]
    /\ \A c \in Codes : \A row \in CodeRecord : codes' = [codes EXCEPT ![c] = row] =>
         /\ codes'[c] = row /\ \A e \in Codes : e # c => codes'[e] = codes[e]
         /\ codes' \in [Codes -> {None} \cup CodeRecord]
    /\ \A m \in Media : \A row \in NoteRecord : notes' = [notes EXCEPT ![m] = row] =>
         /\ notes'[m] = row /\ \A e \in Media : e # m => notes'[e] = notes[e]
         /\ notes' \in [Media -> {None} \cup NoteRecord]
BY DEF Types

LEMMA EndedMeans ==
  Sound => \A r \in Requests : Ends(r) => Moved(r) /\ Idled(r)
BY EndsMeans DEF Sound, Moved, Idled

LEMMA SeenMeans ==
  Sound => \A r \in Requests : Seen(r) => IsSeen(r) \/ Ended(r)
<1> SUFFICES ASSUME Sound, NEW r \in Requests, Seen(r)
             PROVE  IsSeen(r) \/ Ended(r)
    OBVIOUS
<1>1. /\ At(r, "seen") /\ request[r].op \in Asked /\ request[r].op \in Ats /\ Fam(r) \in Families
      /\ request[r].who \in Devices /\ request[r].row \in DeviceRecord /\ request[r].row.family = Fam(r)
  BY DEF Sound, Ops, Reads, ReadsOf, Seen, Asked, Ats, At
<1>2. CASE MayWrite(devices[request[r].who], Fam(r))
  <2>1. devices' = [devices EXCEPT ![request[r].who] = request[r].row] /\ Goes(r, request[r].op)
    BY <1>2 DEF Seen
  <2>2. DeviceWritten(request[r].who, request[r].row)
    BY <1>1, <2>1, RowsWritten DEF Sound, DeviceWritten
  <2>3. Moved(r) /\ WentOn(r, request[r].op, request[r].row)
    BY <1>1, <2>1, GoesMeans DEF Sound, WentOn, Moved
  <2> QED BY <1>1, <1>2, <2>2, <2>3 DEF MayWrite, IsSeen, Seen
<1>3. CASE ~ MayWrite(devices[request[r].who], Fam(r))
  <2>1. Ends(r) /\ devices' = devices
    BY <1>3 DEF Seen
  <2> QED BY <1>1, <2>1, EndedMeans DEF Ended, Seen, At, tables
<1> QED BY <1>2, <1>3

LEMMA RevokeReadsMeans ==
  Sound => \A r \in Requests : RevokeReads(r) => RevokeHolds(r, devices[What(r)]) \/ Ended(r)
<1> SUFFICES ASSUME Sound, NEW r \in Requests, RevokeReads(r)
             PROVE  RevokeHolds(r, devices[What(r)]) \/ Ended(r)
    OBVIOUS
<1>1. /\ At(r, "revoke") /\ "revoking" \in Ats /\ What(r) \in Devices /\ Fam(r) \in Families
      /\ devices[What(r)] # None => devices[What(r)] \in DeviceRecord /\ devices[What(r)] \in Rows
  BY DEF Sound, Types, Ops, Reads, ReadsOf, At, Ats, RevokeReads, Rows
<1>2. CASE devices[What(r)] # None /\ devices[What(r)].family = Fam(r)
  <2>1. Holds(r, "revoking", devices[What(r)])
    BY <1>2 DEF RevokeReads
  <2>2. Moved(r) /\ WentOn(r, "revoking", devices[What(r)])
    BY <1>1, <1>2, <2>1, HoldsMeans DEF Sound, WentOn, Moved
  <2> QED BY <1>1, <1>2, <2>2 DEF RevokeHolds, Reading, RevokeReads, histories
<1>3. CASE ~ (devices[What(r)] # None /\ devices[What(r)].family = Fam(r))
  <2>1. Ends(r)
    BY <1>3 DEF RevokeReads
  <2> QED BY <1>1, <2>1, EndedMeans DEF Ended, RevokeReads, At
<1> QED BY <1>2, <1>3

LEMMA CorrectReadsMeans ==
  Sound => \A r \in Requests : CorrectReads(r) => CorrectHolds(r, notes[What(r)]) \/ Ended(r)
<1> SUFFICES ASSUME Sound, NEW r \in Requests, CorrectReads(r)
             PROVE  CorrectHolds(r, notes[What(r)]) \/ Ended(r)
    OBVIOUS
<1>1. /\ At(r, "correct") /\ "correcting" \in Ats /\ What(r) \in Media /\ Fam(r) \in Families
      /\ notes[What(r)] # None => notes[What(r)] \in NoteRecord /\ notes[What(r)] \in Rows
  BY DEF Sound, Types, Ops, Reads, ReadsOf, At, Ats, CorrectReads, Rows
<1>2. CASE notes[What(r)] # None /\ notes[What(r)].family = Fam(r)
  <2>1. Holds(r, "correcting", notes[What(r)])
    BY <1>2 DEF CorrectReads
  <2>2. Moved(r) /\ WentOn(r, "correcting", notes[What(r)])
    BY <1>1, <1>2, <2>1, HoldsMeans DEF Sound, WentOn, Moved
  <2> QED BY <1>1, <1>2, <2>2 DEF CorrectHolds, Reading, CorrectReads, histories
<1>3. CASE ~ (notes[What(r)] # None /\ notes[What(r)].family = Fam(r))
  <2>1. Ends(r)
    BY <1>3 DEF CorrectReads
  <2> QED BY <1>1, <2>1, EndedMeans DEF Ended, CorrectReads, At
<1> QED BY <1>2, <1>3

LEMMA RevokeSavesMeans ==
  Sound => \A r \in Requests : RevokeSaves(r) => IsRevoked(r, Revoked(request[r].row)) \/ Ended(r)
<1> SUFFICES ASSUME Sound, NEW r \in Requests, RevokeSaves(r)
             PROVE  IsRevoked(r, Revoked(request[r].row)) \/ Ended(r)
    OBVIOUS
<1>1. /\ Moved(r) /\ Idled(r) /\ What(r) \in Devices /\ At(r, "revoking") /\ Fam(r) \in Families
      /\ request[r].row \in DeviceRecord /\ request[r].row.family = Fam(r)
  BY EndedMeans DEF Sound, Ops, Reads, ReadsOf, At, RevokeSaves
<1>2. CASE MayWrite(devices[What(r)], Fam(r))
  <2>1. /\ Revoked(request[r].row).revoked /\ Revoked(request[r].row).family = Fam(r)
        /\ Revoked(request[r].row) \in DeviceRecord
    BY <1>1 DEF Revoked, DeviceRecord
  <2>2. /\ devices' = [devices EXCEPT ![What(r)] = Revoked(request[r].row)]
        /\ trail' = trail \cup {Fam(r)} /\ out' = out \cup {What(r)}
        /\ overtaken' = IF \E q \in Requests : At(q, "seen") /\ request[q].who = What(r)
                          THEN overtaken \cup {What(r)} ELSE overtaken
    BY <1>2 DEF RevokeSaves
  <2>3. DeviceWritten(What(r), Revoked(request[r].row))
    BY <1>1, <2>1, <2>2, RowsWritten DEF Sound, DeviceWritten
  <2> QED BY <1>1, <1>2, <2>1, <2>2, <2>3 DEF MayWrite, IsRevoked, RevokeSaves
<1>3. CASE ~ MayWrite(devices[What(r)], Fam(r))
  <2>1. UNCHANGED <<devices, trail, out, overtaken>>
    BY <1>3 DEF RevokeSaves
  <2> QED BY <1>1, <2>1 DEF RevokeSaves, Ended, At, tables, histories
<1> QED BY <1>2, <1>3

LEMMA PairsMeans ==
  Sound => \A r \in Requests : \A by \in {None} \cup Codes :
    /\ Pairs(r, by) /\ Fam(r) \in families /\ Moved(r) /\ Idled(r)
    /\ UNCHANGED <<families, codes, media, notes, ledger, attempts, files, counts,
                   out, overtaken, together, corrected, shaky, disturbed, halted>>
    => \E d \in Devices : Paired(r, d, by)
<1> SUFFICES ASSUME Sound, NEW r \in Requests, NEW by \in {None} \cup Codes, Pairs(r, by),
                    Fam(r) \in families, Moved(r), Idled(r),
                    UNCHANGED <<families, codes, media, notes, ledger, attempts, files, counts,
                                out, overtaken, together, corrected, shaky, disturbed, halted>>
             PROVE  \E d \in Devices : Paired(r, d, by)
    OBVIOUS
<1> DEFINE new == [family |-> Fam(r), revoked |-> FALSE]
<1>1. PICK d \in Devices \ given :
         /\ devices' = [devices EXCEPT ![d] = new] /\ given' = given \cup {d}
         /\ cameBy' = [cameBy EXCEPT ![d] = by] /\ trail' = trail \cup {Fam(r)}
  BY DEF Pairs
<1>2. Fam(r) \in Families /\ new \in DeviceRecord /\ new.family = Fam(r) /\ ~ new.revoked
  BY DEF DeviceRecord, Sound, Types
<1> HIDE DEF new
<1>3. DeviceWritten(d, new)
  BY <1>1, <1>2, RowsWritten DEF Sound, DeviceWritten
<1>4. /\ cameBy'[d] = by /\ \A x \in Devices : x # d => cameBy'[x] = cameBy[x]
      /\ cameBy' \in [Devices -> {None} \cup Codes]
  BY <1>1 DEF Sound, Types
<1> QED BY <1>1, <1>2, <1>3, <1>4 DEF Paired, DeviceWritten

LEMMA FoundersDeviceMeans ==
  Sound => \A r \in Requests : FoundersDevice(r) => (\E d \in Devices : FoundersIn(r, d)) \/ Ended(r)
<1> SUFFICES ASSUME Sound, NEW r \in Requests, FoundersDevice(r)
             PROVE  (\E d \in Devices : FoundersIn(r, d)) \/ Ended(r)
    OBVIOUS
<1>1. Moved(r) /\ Idled(r) /\ At(r, "pairing")
  BY EndedMeans DEF FoundersDevice
<1>2. CASE Fam(r) \in families
  <2>1. \E d \in Devices : Paired(r, d, None)
    BY <1>1, <1>2, PairsMeans DEF FoundersDevice
  <2> QED BY <1>1, <2>1 DEF FoundersIn
<1>3. CASE Fam(r) \notin families
  BY <1>1, <1>3 DEF FoundersDevice, Ended, At, tables, histories
<1> QED BY <1>2, <1>3

LEMMA JoinMeans ==
  Sound => \A r \in Requests : Join(r) => \E d \in Devices : JoinedBy(r, d)
<1> SUFFICES ASSUME Sound, NEW r \in Requests, Join(r)
             PROVE  \E d \in Devices : JoinedBy(r, d)
    OBVIOUS
<1>1. Moved(r) /\ Idled(r) /\ At(r, "join") /\ What(r) \in Codes
  BY EndedMeans DEF Join, Sound, Reads, ReadsOf, At
<1>2. \E d \in Devices : Paired(r, d, What(r))
  BY <1>1, PairsMeans DEF Join
<1> QED BY <1>1, <1>2 DEF JoinedBy

LEMMA OpenCodeMeans ==
  Sound => \A r \in Requests : OpenCode(r) => (\E c \in Codes : Opened(r, c)) \/ Ended(r)
<1> SUFFICES ASSUME Sound, NEW r \in Requests, OpenCode(r)
             PROVE  (\E c \in Codes : Opened(r, c)) \/ Ended(r)
    OBVIOUS
<1>1. Moved(r) /\ Idled(r) /\ At(r, "open")
  BY EndedMeans DEF OpenCode
<1>2. CASE Fam(r) \in families
  <2> DEFINE new == [family |-> Fam(r), until |-> Expiry(now), claimed |-> FALSE]
  <2>1. PICK c \in Codes \ given : codes' = [codes EXCEPT ![c] = new] /\ given' = given \cup {c}
    BY <1>2 DEF OpenCode
  <2>2. Fam(r) \in Families /\ now + CodeTtl \in 0 .. MaxNow + CodeTtl
    BY <1>2, HouseholdAssumption DEF HouseholdAssumption, Sound, Types
  <2>3. new.family = Fam(r) /\ new.until = now + CodeTtl /\ ~ new.claimed /\ new \in CodeRecord
    BY <2>2 DEF Expiry, CodeRecord
  <2> HIDE DEF new
  <2>4. CodeWritten(c, new)
    BY <2>1, <2>3, RowsWritten DEF Sound, CodeWritten
  <2>5. Opened(r, c)
    BY <1>1, <1>2, <2>1, <2>2, <2>3, <2>4 DEF Opened, CodeWritten, OpenCode
  <2> QED BY <2>5
<1>3. CASE Fam(r) \notin families
  BY <1>1, <1>3 DEF OpenCode, Ended, At, tables
<1> QED BY <1>2, <1>3

LEMMA ConsumeMeans ==
  Sound => \A r \in Requests : Consume(r) => Consumed(r, Spent(request[r].row)) \/ Ended(r)
<1> SUFFICES ASSUME Sound, NEW r \in Requests, Consume(r)
             PROVE  Consumed(r, Spent(request[r].row)) \/ Ended(r)
    OBVIOUS
<1>1. /\ What(r) \in Codes /\ request[r].row \in CodeRecord /\ request[r].row.family = Fam(r)
      /\ request[r].row.until <= now + CodeTtl /\ Fam(r) \in Families
      /\ At(r, "consume") /\ "join" \in Ats
  BY DEF Sound, Ops, Reads, ReadsOf, At, Ats, Consume
<1>2. CASE MayWrite(codes[What(r)], Fam(r))
  <2>1. /\ Spent(request[r].row).claimed /\ Spent(request[r].row).family = Fam(r)
        /\ Spent(request[r].row).until = request[r].row.until /\ Spent(request[r].row) \in CodeRecord
    BY <1>1 DEF Spent, CodeRecord
  <2>2. codes' = [codes EXCEPT ![What(r)] = Spent(request[r].row)] /\ Goes(r, "join")
    BY <1>2 DEF Consume
  <2>3. CodeWritten(What(r), Spent(request[r].row))
    BY <1>1, <2>1, <2>2, RowsWritten DEF Sound, CodeWritten
  <2>4. Moved(r) /\ WentOn(r, "join", request[r].row)
    BY <1>1, <2>2, GoesMeans DEF Sound, WentOn, Moved
  <2> QED BY <1>1, <1>2, <2>1, <2>3, <2>4 DEF MayWrite, Consumed, Consume
<1>3. CASE ~ MayWrite(codes[What(r)], Fam(r))
  <2>1. Ends(r) /\ codes' = codes
    BY <1>3 DEF Consume
  <2> QED BY <1>1, <2>1, EndedMeans DEF Ended, Consume, At, tables
<1> QED BY <1>2, <1>3

LEMMA KeepReadsMeans ==
  Sound => \A r \in Requests : KeepReads(r) => (\E row \in NoteRecord : KeepHolds(r, row)) \/ Ended(r)
<1> SUFFICES ASSUME Sound, NEW r \in Requests, KeepReads(r)
             PROVE  (\E row \in NoteRecord : KeepHolds(r, row)) \/ Ended(r)
    OBVIOUS
<1>1. At(r, "keep") /\ What(r) \in Media
  BY DEF Sound, Ops, Reads, ReadsOf, At, KeepReads
<1> DEFINE keeps == ~Answered(What(r)) /\ Fam(r) \in families /\ media[What(r)] = Fam(r) /\ HasBytes(What(r))
<1>2. CASE keeps
  <2>1. PICK heard \in Readings : Holds(r, "keeping", IndexedBy(Kept(Fam(r)), heard))
    BY <1>2 DEF KeepReads
  <2> DEFINE row == IndexedBy(Kept(Fam(r)), heard)
  <2>2. Fam(r) \in Families
    BY <1>2 DEF Sound, Types
  <2>3. row \in NoteRecord /\ row.family = Fam(r)
    BY <2>2 DEF IndexedBy, Kept, NoteRecord, Readings
  <2>4. Holds(r, "keeping", row)
    BY <2>1
  <2> HIDE DEF row
  <2>5. row \in Rows /\ "keeping" \in Ats
    BY <2>3 DEF Rows, Ats
  <2>6. Moved(r) /\ WentOn(r, "keeping", row)
    BY <2>4, <2>5, HoldsMeans DEF Sound, WentOn, Moved
  <2>7. \/ shaky' = shaky \cup {What(r)}
        \/ shaky' = shaky /\ \A q \in Requests \ {r} : ~ KeepingOf(q, What(r))
    <3>1. \A q \in Requests : KeepingOf(q, What(r)) => request[q].op = "keep"
      BY DEF Sound, Ops, KeepingOf
    <3>2. shaky' = IF \E q \in Requests \ {r} : /\ request[q].op = "keep" /\ What(q) = What(r)
                                                /\ request[q].at \in {"keeping", "remember"}
                     THEN shaky \cup {What(r)} ELSE shaky
      BY <1>2 DEF KeepReads
    <3> QED BY <3>1, <3>2 DEF KeepingOf
  <2>8. KeepHolds(r, row)
    BY <1>1, <1>2, <2>2, <2>3, <2>6, <2>7 DEF KeepHolds, Reading, KeepReads
  <2> QED BY <2>3, <2>8
<1>3. CASE ~ keeps
  <2>1. Ends(r) /\ shaky' = shaky
    BY <1>3 DEF KeepReads
  <2> HIDE DEF keeps
  <2> QED BY <1>1, <2>1, EndedMeans DEF Ended, KeepReads, At, histories
<1> QED BY <1>2, <1>3

LEMMA KeepSavesMeans ==
  Sound => \A r \in Requests : KeepSaves(r) => IsKept(r) \/ Ended(r)
<1> SUFFICES ASSUME Sound, NEW r \in Requests, KeepSaves(r)
             PROVE  IsKept(r) \/ Ended(r)
    OBVIOUS
<1>1. /\ What(r) \in Media /\ request[r].row \in NoteRecord /\ request[r].row.family = Fam(r)
      /\ At(r, "keeping") /\ "remember" \in Ats
  BY DEF Sound, Ops, Reads, ReadsOf, At, Ats, KeepSaves
<1>2. CASE Fam(r) \in families
  <2>1. /\ notes' = [notes EXCEPT ![What(r)] = request[r].row] /\ Goes(r, "remember")
        /\ trail' = trail \cup {Fam(r)}
    BY <1>2 DEF KeepSaves
  <2>2. NoteWritten(What(r), request[r].row)
    BY <1>1, <2>1, RowsWritten DEF Sound, NoteWritten
  <2>3. Moved(r) /\ WentOn(r, "remember", request[r].row)
    BY <1>1, <2>1, GoesMeans DEF Sound, WentOn, Moved
  <2>4. Fam(r) \in Families /\ request[r].row # None
    BY <1>1, <1>2, HouseholdAssumption DEF HouseholdAssumption, NoteRecord, Sound, Types
  <2> QED BY <1>1, <1>2, <2>1, <2>2, <2>3, <2>4 DEF IsKept, KeepSaves
<1>3. CASE Fam(r) \notin families
  <2>1. Ends(r) /\ notes' = notes /\ trail' = trail
    BY <1>3 DEF KeepSaves
  <2> QED BY <1>1, <2>1, EndedMeans DEF Ended, KeepSaves, At, tables
<1> QED BY <1>2, <1>3

LEMMA CorrectSavesMeans ==
  Sound => \A r \in Requests : CorrectSaves(r) => IsCorrected(r, CorrectedTo(request[r].row)) \/ Ended(r)
<1> SUFFICES ASSUME Sound, NEW r \in Requests, CorrectSaves(r)
             PROVE  IsCorrected(r, CorrectedTo(request[r].row)) \/ Ended(r)
    OBVIOUS
<1>1. /\ Moved(r) /\ Idled(r) /\ What(r) \in Media /\ Fam(r) \in Families
      /\ request[r].row \in NoteRecord /\ request[r].row.family = Fam(r) /\ At(r, "correcting")
  BY EndedMeans DEF Sound, Ops, Reads, ReadsOf, At, CorrectSaves
<1>2. CASE MayWrite(notes[What(r)], Fam(r))
  <2>1. /\ CorrectedTo(request[r].row).words = "human" /\ CorrectedTo(request[r].row).family = Fam(r)
        /\ CorrectedTo(request[r].row) \in NoteRecord
    BY <1>1 DEF CorrectedTo, NoteRecord
  <2>2. /\ notes' = [notes EXCEPT ![What(r)] = CorrectedTo(request[r].row)]
        /\ trail' = trail \cup {Fam(r)} /\ corrected' = corrected \cup {What(r)}
    BY <1>2 DEF CorrectSaves
  <2>3. NoteWritten(What(r), CorrectedTo(request[r].row))
    BY <1>1, <2>1, <2>2, RowsWritten DEF Sound, NoteWritten
  <2>4. CorrectedTo(request[r].row) # None
    BY <2>1, HouseholdAssumption DEF HouseholdAssumption, NoteRecord
  <2> QED BY <1>1, <1>2, <2>1, <2>2, <2>3, <2>4 DEF MayWrite, IsCorrected, CorrectSaves
<1>3. CASE ~ MayWrite(notes[What(r)], Fam(r))
  <2>1. UNCHANGED <<notes, trail, corrected>>
    BY <1>3 DEF CorrectSaves
  <2> QED BY <1>1, <2>1 DEF CorrectSaves, Ended, At, tables, histories
<1> QED BY <1>2, <1>3

LEMMA EraseCatalogueMeans ==
  Sound => \A r \in Requests : EraseCatalogue(r) => Unlisted(r)
<1> SUFFICES ASSUME Sound, NEW r \in Requests, EraseCatalogue(r)
             PROVE  Unlisted(r)
    OBVIOUS
<1>1. Goes(r, "rows") /\ "rows" \in Ats /\ At(r, "unlisting") /\ Fam(r) \in Families
  BY DEF EraseCatalogue, Ats, Sound, Reads, ReadsOf, At
<1>2. Moved(r) /\ WentOn(r, "rows", request[r].row)
  BY <1>1, GoesMeans DEF Sound, WentOn, Moved
<1>3. /\ \A m \in Media : IF media[m] = Fam(r) THEN media'[m] = None ELSE media'[m] = media[m]
      /\ media' \in [Media -> {None} \cup Families]
  BY DEF EraseCatalogue, Sound, Types
<1> QED BY <1>1, <1>2, <1>3 DEF Unlisted, EraseCatalogue

LEMMA EraseRowsMeans ==
  Sound => \A r \in Requests : EraseRows(r) => Erased(r)
<1> SUFFICES ASSUME Sound, NEW r \in Requests, EraseRows(r)
             PROVE  Erased(r)
    OBVIOUS
<1>1. Goes(r, "trail") /\ "trail" \in Ats /\ At(r, "rows") /\ Fam(r) \in Families
  BY DEF EraseRows, Ats, Sound, Reads, ReadsOf, At
<1>2. Moved(r) /\ WentOn(r, "trail", request[r].row)
  BY <1>1, GoesMeans DEF Sound, WentOn, Moved
<1>3. /\ devices' = Without(devices, Fam(r)) /\ codes' = Without(codes, Fam(r))
      /\ notes' = Without(notes, Fam(r)) /\ ledger' = {kept \in ledger : kept[1] # Fam(r)}
      /\ corrected' = {m \in corrected : notes'[m] # None} /\ families' = families \ {Fam(r)}
  BY DEF EraseRows
<1>4. /\ \A d \in Devices : IF devices[d] # None /\ devices[d].family = Fam(r)
                              THEN devices'[d] = None ELSE devices'[d] = devices[d]
      /\ devices' \in [Devices -> {None} \cup DeviceRecord]
  BY <1>3 DEF Without, Sound, Types
<1>5. /\ \A c \in Codes : IF codes[c] # None /\ codes[c].family = Fam(r)
                            THEN codes'[c] = None ELSE codes'[c] = codes[c]
      /\ codes' \in [Codes -> {None} \cup CodeRecord]
  BY <1>3 DEF Without, Sound, Types
<1>6. /\ \A m \in Media : IF notes[m] # None /\ notes[m].family = Fam(r)
                            THEN notes'[m] = None ELSE notes'[m] = notes[m]
      /\ notes' \in [Media -> {None} \cup NoteRecord]
  BY <1>3 DEF Without, Sound, Types
<1>7. /\ ledger' \subseteq ledger
      /\ \A f, m : <<f, m>> \in ledger => (<<f, m>> \in ledger' <=> f # Fam(r))
      /\ corrected' \subseteq corrected /\ \A m \in corrected : m \in corrected' <=> notes'[m] # None
  BY <1>3
<1> QED BY <1>1, <1>2, <1>3, <1>4, <1>5, <1>6, <1>7 DEF Erased, EraseRows

\* Nobody else is founding that family.
Strange(f, r) == \A q \in Requests \ {r} : At(q, "founding") => Fam(q) # f

LEMMA Strangers ==
  Unknown /\ Reads => \A r \in Requests : Strange(Fam(r), r) /\ Strange(None, r)
<1> SUFFICES ASSUME Unknown, Reads, NEW r \in Requests, NEW q \in Requests \ {r}, At(q, "founding")
             PROVE  Fam(q) # Fam(r) /\ Fam(q) # None
    BY DEF Strange
<1>1. Fam(q) \in Families
  BY DEF Reads, ReadsOf, At
<1> QED BY <1>1, HouseholdAssumption DEF HouseholdAssumption, Unknown

LEMMA UnknownKept ==
  Unknown => \A r \in Requests :
    /\ SameOthers(r) /\ request'[r].at # "founding" /\ Strange(request'[r].fam, r)
    /\ \A d \in Devices : devices'[d] \in {None, devices[d]} \/ Strange(devices'[d].family, r)
    /\ \A c \in Codes : codes'[c] \in {None, codes[c]} \/ Strange(codes'[c].family, r)
    => Unknown'
<1> SUFFICES ASSUME Unknown, NEW r \in Requests, SameOthers(r), request'[r].at # "founding",
                    Strange(request'[r].fam, r),
                    \A d \in Devices : devices'[d] \in {None, devices[d]} \/ Strange(devices'[d].family, r),
                    \A c \in Codes : codes'[c] \in {None, codes[c]} \/ Strange(codes'[c].family, r),
                    NEW q \in Requests, At(q, "founding")'
             PROVE  /\ \A d \in Devices : devices'[d] # None => devices'[d].family # request'[q].fam
                    /\ \A c \in Codes : codes'[c] # None => codes'[c].family # request'[q].fam
                    /\ \A p \in Requests \ {q} : request'[p].fam # request'[q].fam
    BY DEF Unknown, Fam
<1>1. q # r /\ At(q, "founding") /\ request'[q].fam = Fam(q)
  BY DEF SameOthers, Same, At, Fam
<1>2. /\ \A d \in Devices : devices[d] # None => devices[d].family # Fam(q)
      /\ \A c \in Codes : codes[c] # None => codes[c].family # Fam(q)
      /\ \A p \in Requests \ {q} : Fam(p) # Fam(q)
  BY <1>1 DEF Unknown
<1>3. \A p \in Requests \ {q} : request'[p].fam # request'[q].fam
  BY <1>1, <1>2 DEF SameOthers, Same, Fam, Strange
<1>4. \A d \in Devices : devices'[d] # None => devices'[d].family # request'[q].fam
  BY <1>1, <1>2 DEF Strange
<1>5. \A c \in Codes : codes'[c] # None => codes'[c].family # request'[q].fam
  BY <1>1, <1>2 DEF Strange
<1> QED BY <1>3, <1>4, <1>5

---------------------------------------------------------------------------
(* Where a step could disturb what holds.                                  *)

\* A request that is over has read nothing and been given nothing.
LEMMA IdledReads ==
  \A r \in Requests : Idled(r) => ReadsOf(r)' /\ GivenTo(r)'
<1> SUFFICES ASSUME NEW r \in Requests, Idled(r)
             PROVE  ReadsOf(r)' /\ GivenTo(r)'
    OBVIOUS
<1>1. None \notin {"revoke", "keep", "correct", "claim"}
  BY HouseholdAssumption DEF HouseholdAssumption, Asked
<1> QED BY <1>1 DEF Idled, ReadsOf, GivenTo, At, Fam, What

LEMMA EndedReads ==
  ASSUME IInv, NEW r \in Requests, SameOthers(r), Idled(r), now' = now, given \subseteq given'
  PROVE  Reads' /\ GivenOut'
BY IdledReads, OthersRead, OthersGiven DEF IInv

\* A family that is gone for good has left no row that a request could write again.
LEMMA GoneIsGone ==
  ASSUME Types, NothingOutlivesTheFamily, NEW f \in Families, f \notin families, f \notin disturbed
  PROVE  /\ \A d \in Devices : devices[d] # None => devices[d].family # f
         /\ \A c \in Codes : codes[c] # None => codes[c].family # f
         /\ \A m \in Media : notes[m] # None => notes[m].family # f
         /\ \A m \in Media : media[m] # f
         /\ OfFamily(f) = {}
         /\ f \in trail => f \in halted \/ \E r \in Requests : At(r, "trail") /\ Fam(r) = f
<1>1. /\ \A table \in {devices, codes, notes} : \A x \in DOMAIN table : table[x] = None \/ table[x].family # f
      /\ OfFamily(f) = {} /\ \A m \in Media : media[m] # f
      /\ f \in trail => f \in halted \/ \E r \in Requests : At(r, "trail") /\ Fam(r) = f
  BY DEF NothingOutlivesTheFamily
<1>2. DOMAIN devices = Devices /\ DOMAIN codes = Codes /\ DOMAIN notes = Media
  BY DEF Types
<1> QED BY <1>1, <1>2

\* ... and the other way round.
LEMMA GoneStaysGone ==
  ASSUME Types',
         \A f \in Families : f \notin families' /\ f \notin disturbed' =>
           /\ \A d \in Devices : devices'[d] # None => devices'[d].family # f
           /\ \A c \in Codes : codes'[c] # None => codes'[c].family # f
           /\ \A m \in Media : notes'[m] # None => notes'[m].family # f
           /\ \A m \in Media : media'[m] # f
           /\ OfFamily(f)' = {}
           /\ f \in trail' => f \in halted' \/ \E r \in Requests : At(r, "trail")' /\ request'[r].fam = f
  PROVE  NothingOutlivesTheFamily'
<1> SUFFICES ASSUME NEW f \in Families, f \notin families', f \notin disturbed'
             PROVE  /\ \A table \in {devices', codes', notes'} :
                         \A x \in DOMAIN table : table[x] = None \/ table[x].family # f
                    /\ OfFamily(f)' = {} /\ \A m \in Media : media'[m] # f
                    /\ f \in trail' => f \in halted' \/ \E r \in Requests : At(r, "trail")' /\ request'[r].fam = f
    BY DEF NothingOutlivesTheFamily, Fam
<1>1. DOMAIN devices' = Devices /\ DOMAIN codes' = Codes /\ DOMAIN notes' = Media
  BY DEF Types
<1> QED BY <1>1

LEMMA ArrivesLate ==
  ASSUME IInv, NEW r \in Requests, Arrives(r)
  PROVE  LateIsDisturbing'
<1>1. PICK d \in Devices, op \in Asked :
         /\ Authenticates(d) /\ request'[r].op = op /\ request'[r].fam = devices[d].family
         /\ request'[r].at = "seen"
         /\ disturbed' = IF Meets(r, op, devices[d].family) THEN disturbed \cup {devices[d].family} ELSE disturbed
  BY ArrivesMeans DEF IInv
<1>2. SameOthers(r) /\ families' = families
  BY ArrivesMeans DEF IInv, tables
<1> DEFINE f == devices[d].family
<1>3. disturbed \subseteq disturbed' /\ (Meets(r, op, f) => f \in disturbed')
  BY <1>1
<1>4. f \in families \cup disturbed
  <2>1. devices[d] # None /\ f \in Families
    BY <1>1 DEF Authenticates, IInv, Types, DeviceRecord
  <2> QED BY <2>1, GoneIsGone DEF IInv
<1> HIDE DEF f
<1>5. request'[r].fam = f
  BY <1>1 DEF f
<1>6. ASSUME NEW q \in Requests, NEW p \in Requests, Busy(q)', request'[q].op = "erase",
             Busy(p)', request'[p].op \in Late, request'[q].fam = request'[p].fam
      PROVE  request'[p].fam \in disturbed'
  <2>1. q # p
    BY <1>6 DEF Late
  <2>2. CASE q = r
    <3>1. Busy(p) /\ request[p].op \in Late /\ Fam(p) = f /\ request'[p].fam = f
      BY <1>2, <1>5, <1>6, <2>1, <2>2 DEF SameOthers, Same, Busy, Fam
    <3>2. Meets(r, op, f)
      BY <1>1, <1>6, <2>1, <2>2, <3>1 DEF Meets
    <3> QED BY <1>3, <3>1, <3>2
  <2>3. CASE p = r
    <3>1. Busy(q) /\ request[q].op = "erase" /\ Fam(q) = f /\ request'[p].fam = f
      BY <1>2, <1>5, <1>6, <2>1, <2>3 DEF SameOthers, Same, Busy, Fam
    <3>2. Meets(r, op, f)
      BY <1>1, <1>6, <2>1, <2>3, <3>1 DEF Meets
    <3> QED BY <1>3, <3>1, <3>2
  <2>4. CASE q # r /\ p # r
    BY <1>2, <1>3, <1>6, <2>4 DEF SameOthers, Same, Busy, Fam, IInv, LateIsDisturbing
  <2> QED BY <2>2, <2>3, <2>4
<1>7. ASSUME NEW p \in Requests, Busy(p)', request'[p].op \in Late
      PROVE  request'[p].fam \in families' \cup disturbed'
  <2>1. CASE p = r
    BY <1>2, <1>3, <1>4, <1>5, <2>1
  <2>2. CASE p # r
    BY <1>2, <1>3, <1>7, <2>2 DEF SameOthers, Same, Busy, Fam, IInv, LateIsDisturbing
  <2> QED BY <2>1, <2>2
<1> QED BY <1>6, <1>7 DEF LateIsDisturbing, Fam

LEMMA ArrivesRevoked ==
  ASSUME IInv, NEW r \in Requests, Arrives(r)
  PROVE  RevokedStaysOut' /\ Unknown'
<1>1. PICK d \in Devices :
         /\ Authenticates(d) /\ request'[r].at = "seen" /\ request'[r].who = d
         /\ request'[r].fam = devices[d].family /\ request'[r].after = (d \in out)
  BY ArrivesMeans DEF IInv
<1>2. SameOthers(r) /\ UNCHANGED <<devices, codes, out, overtaken>>
  BY ArrivesMeans DEF IInv, tables
<1>3. RevokedStaysOut'
  <2>1. d \in out => d \in overtaken
    BY <1>1 DEF IInv, RevokedStaysOut, Authenticates
  <2> QED BY <1>1, <1>2, <2>1 DEF IInv, RevokedStaysOut, SameOthers, Same
<1>4. Unknown'
  <2>1. Strange(devices[d].family, r)
    BY <1>1 DEF IInv, Unknown, Strange, Authenticates
  <2>2. request'[r].at # "founding"
    BY <1>1
  <2> QED BY <1>1, <1>2, <2>1, <2>2, UnknownKept DEF IInv
<1> QED BY <1>3, <1>4

LEMMA CountFamiliesLate ==
  ASSUME IInv, NEW r \in Requests, CountFamilies(r)
  PROVE  LateIsDisturbing'
<1>1. SameOthers(r) /\ request'[r].op = None /\ UNCHANGED <<families, disturbed>>
  BY CountFamiliesMeans DEF IInv, tables
<1>2. None \notin Late /\ None # "erase"
  BY HouseholdAssumption DEF HouseholdAssumption, Asked, Late
<1> QED BY <1>1, <1>2 DEF IInv, LateIsDisturbing, SameOthers, Same, Busy, Fam

LEMMA FindCodeLate ==
  ASSUME IInv, NEW r \in Requests, FindCode(r)
  PROVE  LateIsDisturbing' /\ Unknown'
<1>1. /\ SameOthers(r) /\ SameCall(r) /\ At(r, "find") /\ UNCHANGED <<families, disturbed, devices, codes>>
      /\ request'[r].at # "founding"
      /\ \/ What(r) \in Codes /\ codes[What(r)] # None /\ request'[r].fam = codes[What(r)].family
         \/ request'[r].fam = request[r].fam
  BY FindCodeMeans DEF IInv, tables
<1>2. request'[r].op = "claim"
  BY <1>1 DEF SameCall, IInv, Ops, At
<1>3. LateIsDisturbing'
  <2>1. request'[r].op \notin Late /\ request'[r].op # "erase"
    BY <1>2 DEF Late
  <2> QED BY <1>1, <2>1 DEF IInv, LateIsDisturbing, SameOthers, Same, Busy, Fam
<1>4. Unknown'
  <2>1. Strange(request'[r].fam, r)
    BY <1>1, Strangers DEF IInv, Unknown, Strange, Fam
  <2> QED BY <1>1, <2>1, UnknownKept DEF IInv
<1> QED BY <1>3, <1>4

LEMMA AddChildSavesDoor ==
  ASSUME IInv, NEW r \in Requests, AddChildSaves(r)
  PROVE  BoxDoor'
<1>1. /\ SameOthers(r) /\ request'[r].at = "idle" /\ families' = families \cup {Fam(r)}
      /\ UNCHANGED <<disturbed, together>>
  BY EndsMeans DEF IInv, AddChildSaves, histories
<1>2. Fam(r) \in families \cup disturbed
  <2>1. Busy(r) /\ request[r].op \in Late
    BY DEF IInv, Ops, AddChildSaves, At, Busy, Late
  <2> QED BY <2>1 DEF IInv, LateIsDisturbing
<1> QED BY <1>1, <1>2 DEF IInv, BoxDoor, SameOthers, Same, At

LEMMA RememberAnswers ==
  ASSUME IInv, NEW r \in Requests, Remember(r)
  PROVE  KeptIsAnswered'
<1>1. /\ SameOthers(r) /\ request'[r].at = "idle" /\ At(r, "remember") /\ UNCHANGED <<notes, shaky, disturbed>>
      /\ ledger' = IF Fam(r) \in families THEN ledger \cup {<<Fam(r), What(r)>>} ELSE ledger
  BY EndsMeans DEF IInv, Remember, histories
<1>2. Fam(r) \in Families /\ What(r) \in Media
  BY <1>1 DEF IInv, Ops, Reads, ReadsOf, At
<1> SUFFICES ASSUME NEW m \in Media, m \notin shaky, notes[m] # None,
                    notes[m].family \notin disturbed, ~ Answered(m)'
             PROVE  \E q \in Requests : (At(q, "remember") /\ What(q) = m)'
    BY <1>1 DEF KeptIsAnswered
<1>3. ~ Answered(m)
  BY <1>1 DEF Answered
<1>4. PICK q \in Requests : At(q, "remember") /\ What(q) = m
  BY <1>3 DEF IInv, KeptIsAnswered
<1>5. q # r
  <2> SUFFICES ASSUME q = r PROVE FALSE
      OBVIOUS
  <2>1. Fam(r) \notin families
    BY <1>1, <1>2, <1>4 DEF Answered
  <2>2. notes[m].family \in Families
    BY DEF IInv, Types, NoteRecord
  <2>3. RecordingOf(m, notes[m].family) /\ RecordingOf(m, Fam(r))
    BY <1>4 DEF RecordingOf, At
  <2>4. notes[m].family = Fam(r)
    BY <1>2, <2>2, <2>3 DEF IInv, OneFamilyPerRecording
  <2> QED BY <2>1, <2>2, <2>4, GoneIsGone DEF IInv
<1> QED BY <1>1, <1>4, <1>5 DEF SameOthers, Same, At, What

LEMMA EraseFolderReads ==
  ASSUME IInv, NEW r \in Requests, EraseFolder(r)
  PROVE  Reads'
<1>1. now' = now
  BY DEF EraseFolder, counts
<1>2. CASE Goes(r, "unlisting")
  <2>1. SameOthers(r) /\ SameCall(r) /\ request'[r].at = "unlisting" /\ request'[r].what = request[r].what
        /\ request'[r].fam = request[r].fam
    BY <1>2, GoesMeans DEF IInv
  <2>2. ReadsOf(r) /\ At(r, "folder")
    BY DEF IInv, Reads, EraseFolder
  <2>3. ReadsOf(r)'
    BY <2>1, <2>2 DEF ReadsOf, At, Fam, What, SameCall
  <2> QED BY <1>1, <2>1, <2>3, OthersRead DEF IInv
<1>3. CASE Ends(r)
  BY <1>1, <1>3, EndsMeans, IdledReads, OthersRead DEF IInv, Idled
<1> QED BY <1>2, <1>3 DEF EraseFolder

LEMMA RecordFailureTypes ==
  ASSUME IInv, NEW r \in Requests, RecordFailure(r)
  PROVE  Types'
<1>1. request[r].since \in 0 .. MaxNow
  BY DEF IInv, Requested, Request
<1>2. attempts' \subseteq [id : Nat, at : 0 .. MaxNow]
  <2>1. Cardinality(attempts) + 1 \in Nat
    BY FS_CardinalityType DEF IInv, Counted, Numbered
  <2>2. DEFINE row == [id |-> Cardinality(attempts) + 1, at |-> request[r].since]
  <2>3. row \in [id : Nat, at : 0 .. MaxNow]
    BY <1>1, <2>1
  <2>4. attempts \subseteq [id : Nat, at : 0 .. MaxNow] /\ attempts' = attempts \cup {row}
    BY DEF IInv, Types, RecordFailure
  <2> QED BY <2>3, <2>4
<1>3. UNCHANGED <<tables, files, trail, counts, histories>>
  BY DEF RecordFailure
<1> QED BY <1>2, <1>3 DEF IInv, Types, tables, counts, histories

\* Where a device is seen, the row of the family it was read with is there again.
LEMMA SeenIsElsewhere ==
  ASSUME IInv, NEW r \in Requests, IsSeen(r)
  PROVE  /\ request'[r].at \in Asked /\ request'[r].op = request'[r].at /\ request'[r].fam = Fam(r)
         /\ request'[r].what = What(r) /\ request'[r].at \notin Ats \ Asked
<1>1. request'[r].at \in Asked /\ request'[r].op = request'[r].at
  BY DEF IsSeen, WentOn, SameCall
<1> QED BY <1>1 DEF IsSeen, WentOn, Fam, What

LEMMA SeenReads ==
  ASSUME IInv, NEW r \in Requests, IsSeen(r)
  PROVE  Reads' /\ GivenOut'
<1>1. ReadsOf(r) /\ GivenTo(r)
  BY DEF IInv, Reads, GivenOut
<1>2. /\ request'[r].at \in Asked /\ request'[r].op = request[r].op /\ request'[r].fam = Fam(r)
      /\ request'[r].what = What(r) /\ Fam(r) \in Families
  BY SeenIsElsewhere DEF IsSeen, WentOn, SameCall
<1>3. ReadsOf(r)'
  <2>1. request[r].op # "claim"
    BY HouseholdAssumption DEF HouseholdAssumption, IsSeen, Asked
  <2> QED BY <1>1, <1>2, <2>1 DEF ReadsOf, At, Fam, What, Asked
<1>4. GivenTo(r)' /\ SameOthers(r) /\ now' = now /\ given' = given
  BY <1>1, <1>2 DEF GivenTo, At, Fam, What, Asked, IsSeen, Moved, counts
<1> QED BY <1>3, <1>4, OthersRead, OthersGiven DEF IInv

LEMMA SeenTells ==
  ASSUME IInv, NEW r \in Requests, IsSeen(r)
  PROVE  OneFamilyPerDevice' /\ OneFamilyPerRecording'
<1>1. /\ request'[r].at \in Asked /\ request'[r].fam = Fam(r) /\ request'[r].what = What(r)
      /\ SameOthers(r) /\ UNCHANGED <<media, notes, ledger>>
  BY SeenIsElsewhere DEF IsSeen, Moved
<1>2. ASSUME NEW d \in Devices, NEW f \in Families, DeviceOf(d, f)'
      PROVE  DeviceOf(d, f)
  <2>1. CASE devices'[d] # None /\ devices'[d].family = f
    BY <2>1 DEF IsSeen, DeviceWritten, DeviceOf, At, Fam
  <2>2. CASE \E q \in Requests : /\ request'[q].fam = f
                                 /\ \/ request'[q].at = "seen" /\ request'[q].who = d
                                    \/ request'[q].at = "revoking" /\ request'[q].what = d
    <3>1. PICK q \in Requests : /\ request'[q].fam = f
                                /\ \/ request'[q].at = "seen" /\ request'[q].who = d
                                   \/ request'[q].at = "revoking" /\ request'[q].what = d
      BY <2>2
    <3>2. q # r
      BY <1>1, <3>1 DEF Asked
    <3> QED BY <1>1, <3>1, <3>2 DEF DeviceOf, SameOthers, Same, At, Fam, What
  <2> QED BY <1>2, <2>1, <2>2 DEF DeviceOf, At, Fam, What
<1>3. ASSUME NEW m \in Media, NEW f \in Families, RecordingOf(m, f)'
      PROVE  RecordingOf(m, f)
  <2>1. CASE media'[m] = f \/ (notes'[m] # None /\ notes'[m].family = f) \/ <<f, m>> \in ledger'
    BY <1>1, <2>1 DEF RecordingOf
  <2>2. CASE \E q \in Requests : /\ request'[q].fam = f /\ request'[q].what = m
                                 /\ request'[q].at \in {"recording", "keeping", "remember", "correcting"}
    <3>1. PICK q \in Requests : /\ request'[q].fam = f /\ request'[q].what = m
                                /\ request'[q].at \in {"recording", "keeping", "remember", "correcting"}
      BY <2>2
    <3>2. q # r
      BY <1>1, <3>1 DEF Asked
    <3> QED BY <1>1, <3>1, <3>2 DEF RecordingOf, SameOthers, Same, Fam, What
  <2> QED BY <1>3, <2>1, <2>2 DEF RecordingOf, Fam, What
<1> QED BY <1>2, <1>3 DEF IInv, OneFamilyPerDevice, OneFamilyPerRecording

LEMMA SeenStaysOut ==
  ASSUME IInv, NEW r \in Requests, IsSeen(r)
  PROVE  RevokedStaysOut' /\ Unknown' /\ OpenIsUnused' /\ GoesAlone'
<1>1. /\ request'[r].at \in Asked /\ request'[r].fam = Fam(r) /\ request'[r].what = What(r)
      /\ SameOthers(r) /\ UNCHANGED <<codes, out, overtaken, cameBy, together>>
      /\ At(r, "seen") /\ request[r].who \in Devices /\ DeviceWritten(request[r].who, request[r].row)
      /\ SameCall(r) /\ request[r].row.family = Fam(r)
  BY SeenIsElsewhere DEF IsSeen, Moved, histories, WentOn
<1>2. RevokedStaysOut'
  <2>1. request[r].who \in out => request[r].who \in overtaken
    BY <1>1 DEF IInv, Overtaken
  <2>2. out \subseteq Devices
    BY DEF IInv, Types
  <2> QED BY <1>1, <2>1, <2>2 DEF IInv, RevokedStaysOut, DeviceWritten, SameOthers, Same, SameCall
<1>3. Unknown'
  <2>1. Strange(request'[r].fam, r) /\ Strange(request[r].row.family, r)
    BY <1>1, Strangers DEF IInv
  <2>2. request'[r].at # "founding" /\ codes' = codes
    BY <1>1 DEF Asked
  <2>3. \A d \in Devices : devices'[d] \in {None, devices[d]} \/ Strange(devices'[d].family, r)
    BY <1>1, <2>1 DEF DeviceWritten
  <2> QED BY <1>1, <2>1, <2>2, <2>3, UnknownKept DEF IInv
<1>4. request'[r].at \notin {"consume", "join"}
  BY <1>1 DEF Asked
<1>5. OpenIsUnused'
  BY <1>1, <1>4 DEF IInv, OpenIsUnused, SameOthers, Same, At, What
<1>6. GoesAlone'
  BY <1>1, <1>4 DEF IInv, GoesAlone, SameOthers, Same, What
<1> QED BY <1>2, <1>3, <1>5, <1>6

\* Whoever writes a row anyway writes it for a family that is there or disturbed.
LEMMA DeviceIsSomeones ==
  ASSUME IInv, NEW d \in Devices, NEW f \in Families, DeviceOf(d, f),
         devices[d] # None \/ f \in families
  PROVE  f \in families \/ f \in disturbed
<1> SUFFICES ASSUME devices[d] # None, f \notin families, f \notin disturbed
             PROVE  FALSE
    OBVIOUS
<1>1. devices[d].family \in Families /\ DeviceOf(d, devices[d].family)
  BY DEF IInv, Types, DeviceRecord, DeviceOf
<1>2. devices[d].family = f
  BY <1>1 DEF IInv, OneFamilyPerDevice
<1> QED BY <1>2, GoneIsGone DEF IInv

LEMMA CodeIsSomeones ==
  ASSUME IInv, NEW c \in Codes, NEW f \in Families, CodeOf(c, f),
         codes[c] # None \/ f \in families
  PROVE  f \in families \/ f \in disturbed
<1> SUFFICES ASSUME codes[c] # None, f \notin families, f \notin disturbed
             PROVE  FALSE
    OBVIOUS
<1>1. codes[c].family \in Families /\ CodeOf(c, codes[c].family)
  BY DEF IInv, Types, CodeRecord, CodeOf
<1>2. codes[c].family = f
  BY <1>1 DEF IInv, OneFamilyPerCode
<1> QED BY <1>2, GoneIsGone DEF IInv

LEMMA RecordingIsSomeones ==
  ASSUME IInv, NEW m \in Media, NEW f \in Families, RecordingOf(m, f),
         notes[m] # None \/ f \in families
  PROVE  f \in families \/ f \in disturbed
<1> SUFFICES ASSUME notes[m] # None, f \notin families, f \notin disturbed
             PROVE  FALSE
    OBVIOUS
<1>1. notes[m].family \in Families /\ RecordingOf(m, notes[m].family)
  BY DEF IInv, Types, NoteRecord, RecordingOf
<1>2. notes[m].family = f
  BY <1>1 DEF IInv, OneFamilyPerRecording
<1> QED BY <1>2, GoneIsGone DEF IInv

\* ... and then nothing outlives its family that did not.
LEMMA WrittenForSomeone ==
  ASSUME IInv, Types', NEW r \in Requests, SameOthers(r), ~ At(r, "trail"),
         NEW g \in Families, g \in families \/ g \in disturbed,
         UNCHANGED <<families, media, files, disturbed, halted>>, trail' \subseteq trail \cup {g},
         \A d \in Devices : devices'[d] = devices[d] \/ devices'[d].family = g,
         \A c \in Codes : codes'[c] = codes[c] \/ codes'[c].family = g,
         \A m \in Media : notes'[m] = notes[m] \/ notes'[m].family = g
  PROVE  NothingOutlivesTheFamily'
<1>1. ASSUME NEW f \in Families, f \notin families', f \notin disturbed'
      PROVE  /\ \A d \in Devices : devices'[d] # None => devices'[d].family # f
             /\ \A c \in Codes : codes'[c] # None => codes'[c].family # f
             /\ \A m \in Media : notes'[m] # None => notes'[m].family # f
             /\ \A m \in Media : media'[m] # f
             /\ OfFamily(f)' = {}
             /\ f \in trail' => f \in halted' \/ \E q \in Requests : At(q, "trail")' /\ request'[q].fam = f
  <2>1. f \notin families /\ f \notin disturbed /\ f # g
    BY <1>1
  <2>2. /\ \A d \in Devices : devices[d] # None => devices[d].family # f
        /\ \A c \in Codes : codes[c] # None => codes[c].family # f
        /\ \A m \in Media : notes[m] # None => notes[m].family # f
        /\ \A m \in Media : media[m] # f
        /\ OfFamily(f) = {}
        /\ f \in trail => f \in halted \/ \E q \in Requests : At(q, "trail") /\ Fam(q) = f
    BY <2>1, GoneIsGone DEF IInv
  <2>3. OfFamily(f)' = {}
    BY <2>2 DEF OfFamily
  <2>4. f \in trail' => f \in halted' \/ \E q \in Requests : At(q, "trail")' /\ request'[q].fam = f
    BY <2>1, <2>2 DEF At, Fam, SameOthers, Same
  <2> QED BY <2>1, <2>2, <2>3, <2>4
<1> QED BY <1>1, GoneStaysGone

LEMMA SeenOutlivesNothing ==
  ASSUME IInv, NEW r \in Requests, IsSeen(r), Types'
  PROVE  NothingOutlivesTheFamily'
<1>1. /\ UNCHANGED <<families, codes, media, notes, files, trail, disturbed, halted>>
      /\ At(r, "seen") /\ request[r].who \in Devices /\ DeviceWritten(request[r].who, request[r].row)
      /\ request[r].row.family = Fam(r) /\ Fam(r) \in Families /\ SameOthers(r) /\ ~ At(r, "trail")
      /\ devices[request[r].who] # None \/ Fam(r) \in families
  BY DEF IsSeen, Moved, histories, At
<1>2. DeviceOf(request[r].who, Fam(r))
  BY <1>1 DEF DeviceOf
<1>3. Fam(r) \in families \/ Fam(r) \in disturbed
  BY <1>1, <1>2, DeviceIsSomeones
<1>4. \A d \in Devices : devices'[d] = devices[d] \/ devices'[d].family = Fam(r)
  BY <1>1 DEF DeviceWritten
<1> QED BY <1>1, <1>3, <1>4, WrittenForSomeone

LEMMA RevokedOutlivesNothing ==
  ASSUME IInv, NEW r \in Requests, NEW row, IsRevoked(r, row), Types'
  PROVE  NothingOutlivesTheFamily'
<1>1. /\ UNCHANGED <<families, codes, media, notes, files, disturbed, halted>>
      /\ At(r, "revoking") /\ What(r) \in Devices /\ DeviceWritten(What(r), row) /\ trail' = trail \cup {Fam(r)}
      /\ row.family = Fam(r) /\ Fam(r) \in Families /\ SameOthers(r) /\ ~ At(r, "trail")
      /\ devices[What(r)] # None \/ Fam(r) \in families
  BY DEF IsRevoked, Moved, At
<1>2. DeviceOf(What(r), Fam(r))
  BY <1>1 DEF DeviceOf
<1>3. Fam(r) \in families \/ Fam(r) \in disturbed
  BY <1>1, <1>2, DeviceIsSomeones
<1>4. \A d \in Devices : devices'[d] = devices[d] \/ devices'[d].family = Fam(r)
  BY <1>1 DEF DeviceWritten
<1> QED BY <1>1, <1>3, <1>4, WrittenForSomeone

LEMMA ConsumedOutlivesNothing ==
  ASSUME IInv, NEW r \in Requests, NEW row, Consumed(r, row), Types'
  PROVE  NothingOutlivesTheFamily'
<1>1. /\ UNCHANGED <<families, devices, media, notes, files, trail, disturbed, halted>>
      /\ At(r, "consume") /\ What(r) \in Codes /\ CodeWritten(What(r), row)
      /\ row.family = Fam(r) /\ Fam(r) \in Families /\ SameOthers(r) /\ ~ At(r, "trail")
      /\ codes[What(r)] # None \/ Fam(r) \in families
  BY DEF Consumed, Moved, At, histories
<1>2. CodeOf(What(r), Fam(r))
  BY <1>1 DEF CodeOf
<1>3. Fam(r) \in families \/ Fam(r) \in disturbed
  BY <1>1, <1>2, CodeIsSomeones
<1>4. \A c \in Codes : codes'[c] = codes[c] \/ codes'[c].family = Fam(r)
  BY <1>1 DEF CodeWritten
<1> QED BY <1>1, <1>3, <1>4, WrittenForSomeone

LEMMA ConsumedTypes ==
  ASSUME IInv, NEW r \in Requests, NEW row, Consumed(r, row)
  PROVE  Types'
<1>1. /\ UNCHANGED <<families, devices, media, notes, ledger, attempts, files, trail, counts, histories>>
      /\ codes' \in [Codes -> {None} \cup CodeRecord]
  BY DEF Consumed, CodeWritten
<1>2. \A c \in Codes : codes'[c] # None => codes'[c].until <= now + CodeTtl
  BY DEF Consumed, CodeWritten, IInv, Types
<1> QED BY <1>1, <1>2 DEF IInv, Types, counts, histories

LEMMA OpenedTypes ==
  ASSUME IInv, NEW r \in Requests, NEW c \in Codes, Opened(r, c)
  PROVE  Types'
<1>1. /\ UNCHANGED <<families, devices, media, notes, ledger, attempts, files, trail, counts, histories>>
      /\ codes' \in [Codes -> {None} \cup CodeRecord]
  BY DEF Opened
<1>2. now + CodeTtl \in Int
  BY HouseholdAssumption DEF HouseholdAssumption, IInv, Types
<1>3. \A x \in Codes : codes'[x] # None => codes'[x].until <= now + CodeTtl
  BY <1>2 DEF Opened, IInv, Types
<1> QED BY <1>1, <1>3 DEF IInv, Types, counts, histories

LEMMA CorrectedKeeps ==
  ASSUME IInv, NEW r \in Requests, NEW row, IsCorrected(r, row), Types'
  PROVE  NothingOutlivesTheFamily' /\ KeptIsAnswered' /\ KeepsAlone'
<1>1. /\ UNCHANGED <<families, devices, codes, media, ledger, files, disturbed, halted, shaky>>
      /\ At(r, "correcting") /\ What(r) \in Media /\ NoteWritten(What(r), row) /\ trail' = trail \cup {Fam(r)}
      /\ row.family = Fam(r) /\ Fam(r) \in Families /\ SameOthers(r) /\ ~ At(r, "trail")
      /\ notes[What(r)] # None \/ Fam(r) \in families
      /\ request'[r].at = "idle"
  BY DEF IsCorrected, Moved, At, Idled
<1>2. RecordingOf(What(r), Fam(r))
  BY <1>1 DEF RecordingOf, At
<1>3. Fam(r) \in families \/ Fam(r) \in disturbed
  BY <1>1, <1>2, RecordingIsSomeones
<1>4. NothingOutlivesTheFamily'
  <2>1. \A m \in Media : notes'[m] = notes[m] \/ notes'[m].family = Fam(r)
    BY <1>1 DEF NoteWritten
  <2> QED BY <1>1, <1>3, <2>1, WrittenForSomeone
<1>5. notes[What(r)] = None => Fam(r) \in disturbed
  BY <1>1 DEF IInv, CorrectsInTime
<1>6. notes[What(r)] # None => notes[What(r)].family = Fam(r)
  <2>1. notes[What(r)] # None =>
          notes[What(r)].family \in Families /\ RecordingOf(What(r), notes[What(r)].family)
    BY <1>1 DEF IInv, Types, NoteRecord, RecordingOf
  <2> QED BY <1>1, <1>2, <2>1 DEF IInv, OneFamilyPerRecording
<1>7. KeptIsAnswered'
  <2> SUFFICES ASSUME NEW m \in Media, m \notin shaky, notes'[m] # None
               PROVE  \/ notes'[m].family \in disturbed \/ Answered(m)
                      \/ \E q \in Requests : (At(q, "remember") /\ What(q) = m)'
      BY <1>1 DEF KeptIsAnswered, Answered
  <2>1. notes[m] # None => \/ notes[m].family \in disturbed \/ Answered(m)
                           \/ \E q \in Requests : At(q, "remember") /\ What(q) = m
    BY DEF IInv, KeptIsAnswered
  <2>2. (\E q \in Requests : At(q, "remember") /\ What(q) = m) =>
          \E q \in Requests : (At(q, "remember") /\ What(q) = m)'
    BY <1>1 DEF SameOthers, Same, At, What
  <2>3. CASE m = What(r)
    BY <1>1, <1>5, <1>6, <2>1, <2>2, <2>3 DEF NoteWritten
  <2>4. CASE m # What(r)
    <3>1. notes'[m] = notes[m]
      BY <1>1, <2>4 DEF NoteWritten
    <3> QED BY <2>1, <2>2, <3>1
  <2> QED BY <2>3, <2>4
<1>8. KeepsAlone'
  <2> SUFFICES ASSUME NEW q \in Requests, At(q, "keeping")', request'[q].what \notin shaky
               PROVE  /\ \A p \in Requests \ {q} :
                           ~ (request'[p].at \in {"keeping", "remember"} /\ request'[p].what = request'[q].what)
                      /\ request'[q].fam \in disturbed \/ notes'[request'[q].what] = None
      BY <1>1 DEF KeepsAlone, KeepingOf, What, Fam
  <2>1. q # r /\ At(q, "keeping") /\ request'[q] = request[q] /\ What(q) \notin shaky /\ What(q) \in Media
    BY <1>1 DEF SameOthers, Same, At, What, IInv, Ops, Reads, ReadsOf
  <2>2. /\ \A p \in Requests \ {q} : ~ KeepingOf(p, What(q))
        /\ Fam(q) \in disturbed \/ notes[What(q)] = None
    BY <2>1 DEF IInv, KeepsAlone
  <2>3. \A p \in Requests \ {q} : 
         ~ (request'[p].at \in {"keeping", "remember"} /\ request'[p].what = request'[q].what)
    BY <1>1, <2>1, <2>2 DEF SameOthers, Same, KeepingOf, What
  <2>4. request'[q].fam \in disturbed \/ notes'[request'[q].what] = None
    <3>1. CASE What(q) = What(r)
      <4>1. RecordingOf(What(r), Fam(q)) /\ Fam(q) \in Families
        BY <2>1, <3>1 DEF RecordingOf, At, IInv, Reads, ReadsOf
      <4>2. Fam(q) = Fam(r)
        BY <1>1, <1>2, <4>1 DEF IInv, OneFamilyPerRecording
      <4> QED BY <1>5, <2>1, <2>2, <3>1, <4>2 DEF Fam
    <3>2. CASE What(q) # What(r)
      BY <1>1, <2>1, <2>2, <3>2 DEF NoteWritten, Fam, What
    <3> QED BY <3>1, <3>2
  <2> QED BY <2>3, <2>4
<1> QED BY <1>4, <1>7, <1>8

LEMMA KeptAlone ==
  ASSUME IInv, NEW r \in Requests, IsKept(r)
  PROVE  KeepsAlone'
<1>1. /\ UNCHANGED <<disturbed, shaky>> /\ SameOthers(r) /\ At(r, "keeping") /\ What(r) \in Media
      /\ request'[r].at = "remember" /\ request'[r].what = What(r) /\ NoteWritten(What(r), request[r].row)
  BY DEF IsKept, Moved, WentOn, What, histories
<1> SUFFICES ASSUME NEW q \in Requests, At(q, "keeping")', request'[q].what \notin shaky
             PROVE  /\ \A p \in Requests \ {q} :
                         ~ (request'[p].at \in {"keeping", "remember"} /\ request'[p].what = request'[q].what)
                    /\ request'[q].fam \in disturbed \/ notes'[request'[q].what] = None
    BY <1>1 DEF KeepsAlone, KeepingOf, What, Fam
<1>2. q # r /\ At(q, "keeping") /\ request'[q] = request[q] /\ What(q) \notin shaky /\ What(q) \in Media
  BY <1>1 DEF SameOthers, Same, At, What, IInv, Ops, Reads, ReadsOf
<1>3. /\ \A p \in Requests \ {q} : ~ KeepingOf(p, What(q))
      /\ Fam(q) \in disturbed \/ notes[What(q)] = None
  BY <1>2 DEF IInv, KeepsAlone
<1>4. What(r) # What(q)
  BY <1>1, <1>2, <1>3 DEF KeepingOf, At
<1> QED BY <1>1, <1>2, <1>3, <1>4 DEF SameOthers, Same, KeepingOf, What, Fam, NoteWritten

LEMMA KeepHoldsAlone ==
  ASSUME IInv, NEW r \in Requests, NEW row, KeepHolds(r, row)
  PROVE  KeepsAlone'
<1>1. /\ UNCHANGED <<notes, disturbed>> /\ SameOthers(r) /\ At(r, "keep") /\ What(r) \in Media
      /\ request'[r].at = "keeping" /\ request'[r].what = What(r) /\ request'[r].fam = Fam(r)
      /\ Fam(r) \in Families /\ ~ Answered(What(r)) /\ media[What(r)] = Fam(r)
  BY DEF KeepHolds, Reading, Moved, WentOn, What, Fam, tables
<1>2. \/ shaky' = shaky \cup {What(r)}
      \/ shaky' = shaky /\ \A q \in Requests \ {r} : ~ KeepingOf(q, What(r))
  BY DEF KeepHolds
<1> SUFFICES ASSUME NEW q \in Requests, At(q, "keeping")', request'[q].what \notin shaky'
             PROVE  /\ \A p \in Requests \ {q} :
                         ~ (request'[p].at \in {"keeping", "remember"} /\ request'[p].what = request'[q].what)
                    /\ request'[q].fam \in disturbed \/ notes[request'[q].what] = None
    BY <1>1 DEF KeepsAlone, KeepingOf, What, Fam
<1>3. CASE q = r
  <2>1. What(r) \notin shaky /\ \A p \in Requests \ {r} : ~ KeepingOf(p, What(r))
    BY <1>1, <1>2, <1>3
  <2>2. \A p \in Requests \ {q} :
           ~ (request'[p].at \in {"keeping", "remember"} /\ request'[p].what = request'[q].what)
    BY <1>1, <1>3, <2>1 DEF SameOthers, Same, KeepingOf, What
  <2>3. ASSUME notes[What(r)] # None
        PROVE  Fam(r) \in disturbed
    <3>1. ~ \E p \in Requests : At(p, "remember") /\ What(p) = What(r)
      BY <1>1, <2>1 DEF KeepingOf, At
    <3>2. notes[What(r)].family \in disturbed
      BY <1>1, <2>1, <2>3, <3>1 DEF IInv, KeptIsAnswered
    <3>3. notes[What(r)].family \in Families
      BY <1>1, <2>3 DEF IInv, Types, NoteRecord
    <3>4. RecordingOf(What(r), notes[What(r)].family) /\ RecordingOf(What(r), Fam(r))
      BY <1>1, <2>3 DEF RecordingOf
    <3> QED BY <1>1, <3>2, <3>3, <3>4 DEF IInv, OneFamilyPerRecording
  <2> QED BY <1>1, <1>3, <2>2, <2>3
<1>4. CASE q # r
  <2>1. At(q, "keeping") /\ request'[q] = request[q] /\ What(q) \notin shaky
    BY <1>1, <1>2, <1>4 DEF SameOthers, Same, At, What
  <2>2. /\ \A p \in Requests \ {q} : ~ KeepingOf(p, What(q))
        /\ Fam(q) \in disturbed \/ notes[What(q)] = None
    BY <2>1 DEF IInv, KeepsAlone
  <2>3. What(r) # What(q)
    BY <1>2, <1>4, <2>1 DEF KeepingOf, At, What
  <2> QED BY <1>1, <2>1, <2>2, <2>3 DEF SameOthers, Same, KeepingOf, What, Fam
<1> QED BY <1>3, <1>4

LEMMA UnlistedTakes ==
  ASSUME IInv, NEW r \in Requests, Unlisted(r)
  PROVE  TakenAway'
<1>1. /\ UNCHANGED <<files, disturbed>> /\ SameOthers(r) /\ At(r, "unlisting") /\ Fam(r) \in Families
      /\ request'[r].at = "rows" /\ request'[r].fam = Fam(r)
      /\ \A m \in Media : IF media[m] = Fam(r) THEN media'[m] = None ELSE media'[m] = media[m]
  BY DEF Unlisted, Moved, WentOn, Fam, histories
<1> SUFFICES ASSUME NEW q \in Requests, request'[q].fam \notin disturbed
             PROVE  /\ request'[q].at \in {"unlisting", "rows"} => {x \in files : x[1] = request'[q].fam} = {}
                    /\ request'[q].at = "rows" => \A m \in Media : media'[m] # request'[q].fam
    BY <1>1 DEF TakenAway, OfFamily, At, Fam
<1>2. request'[q].fam = Fam(q)
  BY <1>1 DEF SameOthers, Same, Fam
<1>3. /\ request[q].at \in {"unlisting", "rows"} => OfFamily(Fam(q)) = {}
      /\ At(q, "rows") => \A m \in Media : media[m] # Fam(q)
  BY <1>2 DEF IInv, TakenAway
<1>4. request'[q].at \in {"unlisting", "rows"} => {x \in files : x[1] = request'[q].fam} = {}
  BY <1>1, <1>2, <1>3 DEF SameOthers, Same, OfFamily, At
<1>5. request'[q].at = "rows" => \A m \in Media : media'[m] # request'[q].fam
  <2> SUFFICES ASSUME request'[q].at = "rows" PROVE \A m \in Media : media'[m] # Fam(q)
      BY <1>2
  <2>1. Fam(q) # None
    <3>1. Fam(q) \in Families
      BY <1>1 DEF SameOthers, Same, IInv, Reads, ReadsOf
    <3> QED BY <3>1, HouseholdAssumption DEF HouseholdAssumption
  <2>2. CASE q = r
    BY <1>1, <2>1, <2>2
  <2>3. CASE q # r
    BY <1>1, <1>3, <2>1, <2>3 DEF SameOthers, Same, At
  <2> QED BY <2>2, <2>3
<1> QED BY <1>4, <1>5

LEMMA ErasedLeaves ==
  ASSUME IInv, NEW r \in Requests, Erased(r)
  PROVE  LateIsDisturbing' /\ KeptIsAnswered' /\ KeepsAlone' /\ CorrectsInTime'
<1>1. /\ UNCHANGED <<disturbed, shaky>> /\ SameOthers(r) /\ At(r, "rows") /\ Fam(r) \in Families
      /\ request'[r].at = "trail" /\ request'[r].fam = Fam(r) /\ request'[r].op = request[r].op
      /\ families' = families \ {Fam(r)}
      /\ \A m \in Media : IF notes[m] # None /\ notes[m].family = Fam(r)
                            THEN notes'[m] = None ELSE notes'[m] = notes[m]
      /\ \A f, m : <<f, m>> \in ledger => (<<f, m>> \in ledger' <=> f # Fam(r))
  BY DEF Erased, Moved, WentOn, Fam, SameCall
<1>2. request[r].op = "erase" /\ Busy(r)
  BY <1>1 DEF IInv, Ops, At, Busy
<1>3. LateIsDisturbing'
  <2>1. ASSUME NEW p \in Requests, Busy(p)', request'[p].op \in Late
        PROVE  p # r /\ Busy(p) /\ request[p].op \in Late /\ request'[p].fam = Fam(p)
    BY <1>1, <1>2, <2>1 DEF SameOthers, Same, Busy, Fam, Late
  <2>2. ASSUME NEW q \in Requests, Busy(q)', request'[q].op = "erase"
        PROVE  Busy(q) /\ request[q].op = "erase" /\ request'[q].fam = Fam(q)
    BY <1>1, <1>2, <2>2 DEF SameOthers, Same, Busy, Fam
  <2>3. ASSUME NEW p \in Requests, Busy(p)', request'[p].op \in Late
        PROVE  request'[p].fam \in families' \cup disturbed'
    <3>1. p # r /\ Busy(p) /\ request[p].op \in Late /\ request'[p].fam = Fam(p)
      BY <2>1, <2>3
    <3>2. Fam(p) = Fam(r) => Fam(p) \in disturbed
      BY <1>2, <3>1 DEF IInv, LateIsDisturbing
    <3>3. Fam(p) \in families \cup disturbed
      BY <3>1 DEF IInv, LateIsDisturbing
    <3> QED BY <1>1, <3>1, <3>2, <3>3
  <2>4. ASSUME NEW q \in Requests, NEW p \in Requests, Busy(q)', request'[q].op = "erase",
               Busy(p)', request'[p].op \in Late, request'[q].fam = request'[p].fam
        PROVE  request'[p].fam \in disturbed'
    <3>1. Busy(p) /\ request[p].op \in Late /\ request'[p].fam = Fam(p)
      BY <2>1, <2>4
    <3>2. Busy(q) /\ request[q].op = "erase" /\ request'[q].fam = Fam(q)
      BY <2>2, <2>4
    <3> QED BY <1>1, <2>4, <3>1, <3>2 DEF IInv, LateIsDisturbing
  <2> QED BY <2>3, <2>4 DEF LateIsDisturbing, Fam
<1>4. KeptIsAnswered'
  <2> SUFFICES ASSUME NEW m \in Media, m \notin shaky, notes'[m] # None, notes'[m].family \notin disturbed,
                      ~ \E q \in Requests : request'[q].at = "remember" /\ request'[q].what = m
               PROVE  \E f \in Families : <<f, m>> \in ledger'
      BY <1>1 DEF KeptIsAnswered, Answered, At, What
  <2>1. notes'[m] = notes[m] /\ notes[m].family # Fam(r) /\ notes[m] # None
    BY <1>1
  <2>2. ~ \E q \in Requests : At(q, "remember") /\ What(q) = m
    BY <1>1 DEF SameOthers, Same, At, What
  <2>3. PICK f \in Families : <<f, m>> \in ledger
    BY <1>1, <2>1, <2>2 DEF IInv, KeptIsAnswered, Answered
  <2>4. notes[m].family \in Families /\ RecordingOf(m, notes[m].family) /\ RecordingOf(m, f)
    BY <2>1, <2>3 DEF IInv, Types, NoteRecord, RecordingOf
  <2>5. f = notes[m].family
    BY <2>4 DEF IInv, OneFamilyPerRecording
  <2> QED BY <1>1, <2>1, <2>3, <2>5
<1>5. KeepsAlone'
  <2> SUFFICES ASSUME NEW q \in Requests, At(q, "keeping")', request'[q].what \notin shaky
               PROVE  /\ \A p \in Requests \ {q} :
                           ~ (request'[p].at \in {"keeping", "remember"} /\ request'[p].what = request'[q].what)
                      /\ request'[q].fam \in disturbed \/ notes'[request'[q].what] = None
      BY <1>1 DEF KeepsAlone, KeepingOf, What, Fam
  <2>1. q # r /\ At(q, "keeping") /\ request'[q] = request[q] /\ What(q) \notin shaky /\ What(q) \in Media
    BY <1>1 DEF SameOthers, Same, At, What, IInv, Ops, Reads, ReadsOf
  <2>2. /\ \A p \in Requests \ {q} : ~ KeepingOf(p, What(q))
        /\ Fam(q) \in disturbed \/ notes[What(q)] = None
    BY <2>1 DEF IInv, KeepsAlone
  <2> QED BY <1>1, <2>1, <2>2 DEF SameOthers, Same, KeepingOf, What, Fam
<1>6. CorrectsInTime'
  <2> SUFFICES ASSUME NEW q \in Requests, At(q, "correcting")', notes'[request'[q].what] = None
               PROVE  request'[q].fam \in disturbed \/ request'[q].fam \notin families'
      BY <1>1 DEF CorrectsInTime, What, Fam
  <2>1. q # r /\ At(q, "correcting") /\ request'[q] = request[q] /\ What(q) \in Media /\ Fam(q) \in Families
    BY <1>1 DEF SameOthers, Same, At, What, IInv, Ops, Reads, ReadsOf
  <2>2. CASE notes[What(q)] = None
    BY <1>1, <2>1, <2>2 DEF IInv, CorrectsInTime, Fam
  <2>3. CASE notes[What(q)] # None
    <3>1. notes[What(q)].family = Fam(r)
      BY <1>1, <2>1, <2>3 DEF What
    <3>2. RecordingOf(What(q), Fam(r)) /\ RecordingOf(What(q), Fam(q))
      BY <2>1, <2>3, <3>1 DEF RecordingOf, At
    <3>3. Fam(q) = Fam(r)
      BY <1>1, <2>1, <3>2 DEF IInv, OneFamilyPerRecording
    <3> QED BY <1>1, <2>1, <3>3 DEF Fam
  <2> QED BY <2>2, <2>3
<1> QED BY <1>3, <1>4, <1>5, <1>6

---------------------------------------------------------------------------
(* Every failure was a claim, and a claim fails once.                      *)

LEMMA ClaimsAreFinite ==
  /\ IsFiniteSet(Requests) /\ Cardinality(Requests) \in Nat
  /\ IsFiniteSet(Claims) /\ Cardinality(Claims) \in Nat
  /\ \A t : /\ IsFiniteSet(ClaimsWithin(t)) /\ Cardinality(ClaimsWithin(t)) \in Nat
            /\ Cardinality(ClaimsWithin(t)) <= Cardinality(Requests)
<1>1. IsFiniteSet(Requests) /\ Claims \subseteq Requests
  BY HouseholdAssumption DEF HouseholdAssumption, Claims
<1>2. ASSUME NEW t PROVE ClaimsWithin(t) \subseteq Requests
  BY DEF ClaimsWithin, Claims
<1> QED BY <1>1, <1>2, FS_Subset, FS_CardinalityType

LEMMA WithinIsFinite ==
  ASSUME IsFiniteSet(attempts)
  PROVE  /\ Cardinality(attempts) \in Nat
         /\ \A t : IsFiniteSet(Within(t)) /\ Cardinality(Within(t)) \in Nat
<1>1. ASSUME NEW t PROVE Within(t) \subseteq attempts
  BY DEF Within
<1> QED BY <1>1, FS_Subset, FS_CardinalityType

\* Where claims go on or end, and none begins.
LEMMA FewerClaims ==
  ASSUME Types, Counted, attempts' = attempts, begun' \in Nat, begun <= begun',
         \A r \in Claims' : r \in Claims /\ request'[r].since = request[r].since
  PROVE  Counted'
<1>1. ASSUME NEW t PROVE ClaimsWithin(t)' \subseteq ClaimsWithin(t)
  BY DEF ClaimsWithin
<1>2. PICK c : c = Claims'
  OBVIOUS
<1>3. Cardinality(c) \in Nat /\ Cardinality(c) <= Cardinality(Claims) /\ Cardinality(Claims) \in Nat
  <2>1. c \subseteq Claims
    BY <1>2
  <2> QED BY <2>1, ClaimsAreFinite, FS_Subset, FS_CardinalityType
<1>4. Numbered'
  <2>1. /\ Cardinality(attempts) \in Nat /\ begun \in Nat
        /\ Cardinality(attempts) + Cardinality(Claims) <= begun
    BY WithinIsFinite DEF Types, Counted, Numbered
  <2>2. Cardinality(attempts) + Cardinality(c) <= begun'
    BY <1>3, <2>1
  <2> QED BY <1>2, <2>2 DEF Counted, Numbered
<1>5. ASSUME NEW t \in 0 .. MaxNow
      PROVE  (Cardinality(Within(t)) + Cardinality(ClaimsWithin(t)) <= MaxAttempts + Cardinality(Requests) - 1)'
  <2>1. PICK d : d = ClaimsWithin(t)'
    OBVIOUS
  <2>2. Cardinality(d) \in Nat /\ Cardinality(d) <= Cardinality(ClaimsWithin(t))
        /\ Cardinality(ClaimsWithin(t)) \in Nat
    <3>1. d \subseteq ClaimsWithin(t)
      BY <1>1, <2>1
    <3> QED BY <3>1, ClaimsAreFinite, FS_Subset, FS_CardinalityType
  <2>3. /\ Cardinality(Within(t)) \in Nat /\ Cardinality(Requests) \in Nat /\ MaxAttempts \in Nat
        /\ Cardinality(Within(t)) + Cardinality(ClaimsWithin(t)) <= MaxAttempts + Cardinality(Requests) - 1
    BY WithinIsFinite, ClaimsAreFinite, HouseholdAssumption DEF HouseholdAssumption, Counted, Numbered, FewAtOnce
  <2>4. Within(t)' = Within(t)
    BY DEF Within
  <2>5. Cardinality(Within(t)) + Cardinality(d) <= MaxAttempts + Cardinality(Requests) - 1
    BY <2>2, <2>3
  <2> QED BY <2>1, <2>4, <2>5
<1> QED BY <1>4, <1>5 DEF Counted, FewAtOnce

LEMMA CountedKept ==
  ASSUME Types, Counted, NEW r \in Requests, SameOthers(r), attempts' = attempts,
         begun' \in Nat, begun <= begun',
         (SameCall(r) /\ Busy(r)) \/ request'[r].at = "idle" \/ request'[r].op # "claim"
  PROVE  Counted'
<1>1. ASSUME NEW q \in Claims' PROVE q \in Claims /\ request'[q].since = request[q].since
  BY DEF Claims, Busy, SameOthers, Same, SameCall
<1> QED BY <1>1, FewerClaims

\* Nothing a count is about changes.
LEMMA CountedRests ==
  ASSUME Counted, attempts' = attempts, begun' = begun, request' = request
  PROVE  Counted'
<1>1. Claims' = Claims
  BY DEF Claims, Busy
<1>2. \A t : ClaimsWithin(t)' = ClaimsWithin(t) /\ Within(t)' = Within(t)
  BY <1>1 DEF ClaimsWithin, Within
<1> QED BY <1>1, <1>2 DEF Counted, Numbered, FewAtOnce

\* One element more, at most.
LEMMA OneMore ==
  ASSUME NEW S, NEW T, NEW x, IsFiniteSet(T), S \subseteq T \cup {x}
  PROVE  /\ IsFiniteSet(S) /\ Cardinality(S) \in Nat /\ Cardinality(T) \in Nat
         /\ Cardinality(S) <= Cardinality(T) + 1
<1>1. /\ IsFiniteSet(T \cup {x}) /\ Cardinality(T) \in Nat
      /\ Cardinality(T \cup {x}) = Cardinality(T) \/ Cardinality(T \cup {x}) = Cardinality(T) + 1
  BY FS_AddElement, FS_CardinalityType
<1>2. IsFiniteSet(S) /\ Cardinality(S) \in Nat /\ Cardinality(S) <= Cardinality(T \cup {x})
  BY <1>1, FS_Subset, FS_CardinalityType
<1> QED BY <1>1, <1>2

\* One element less, at least.
LEMMA OneLess ==
  ASSUME NEW S, NEW T, NEW x \in T, IsFiniteSet(T), S \subseteq T \ {x}
  PROVE  /\ Cardinality(S) \in Nat /\ Cardinality(T) \in Nat /\ Cardinality(S) + 1 <= Cardinality(T)
<1>1. /\ IsFiniteSet(T \ {x}) /\ Cardinality(T) \in Nat /\ Cardinality(T \ {x}) = Cardinality(T) - 1
  BY FS_RemoveElement, FS_CardinalityType
<1>2. Cardinality(S) \in Nat /\ Cardinality(S) <= Cardinality(T \ {x})
  BY <1>1, FS_Subset, FS_CardinalityType
<1> QED BY <1>1, <1>2

\* Whoever begins found the window open; whom it does not concern, it leaves as he was.
LEMMA ClaimIsCounted ==
  ASSUME IInv, NEW r \in Requests, ClaimBegins(r)
  PROVE  Counted'
<1>1. /\ attempts' = attempts /\ begun' = begun + 1 /\ SameOthers(r) /\ At(r, "idle")
      /\ request'[r].since = now /\ now' = now
  BY ClaimBeginsMeans DEF IInv
<1>2. /\ Types /\ Counted /\ now \in 0 .. MaxNow /\ CodeTtl \in Nat /\ MaxAttempts \in Nat /\ ~ Locked(now)
      /\ begun \in Nat /\ MaxNow \in Nat
  BY HouseholdAssumption DEF HouseholdAssumption, IInv, Types, ClaimBegins
<1>3. IsFiniteSet(attempts) /\ Cardinality(attempts) \in Nat
  BY <1>2, WithinIsFinite DEF Counted, Numbered
<1>4. Numbered'
  <2>1. PICK c : c = Claims'
    OBVIOUS
  <2>2. c \subseteq Claims \cup {r}
    BY <1>1, <2>1 DEF Claims, Busy, SameOthers, Same
  <2>3. Cardinality(c) \in Nat /\ Cardinality(c) <= Cardinality(Claims) + 1 /\ Cardinality(Claims) \in Nat
    BY <2>2, ClaimsAreFinite, OneMore
  <2>4. Cardinality(attempts) + Cardinality(Claims) <= begun
    BY <1>2 DEF Counted, Numbered
  <2>5. Cardinality(attempts) + Cardinality(c) <= begun + 1
    BY <1>2, <1>3, <2>3, <2>4
  <2> QED BY <1>1, <1>2, <2>1, <2>5 DEF Counted, Numbered
<1>5. ASSUME NEW t \in 0 .. MaxNow
      PROVE  (Cardinality(Within(t)) + Cardinality(ClaimsWithin(t)) <= MaxAttempts + Cardinality(Requests) - 1)'
  <2>1. PICK d : d = ClaimsWithin(t)'
    OBVIOUS
  <2>2. Within(t)' = Within(t) /\ IsFiniteSet(Within(t)) /\ Cardinality(Within(t)) \in Nat
    BY <1>1, <1>3, WithinIsFinite DEF Within
  <2>3. /\ Cardinality(Within(t)) + Cardinality(ClaimsWithin(t)) <= MaxAttempts + Cardinality(Requests) - 1
        /\ IsFiniteSet(ClaimsWithin(t)) /\ Cardinality(ClaimsWithin(t)) \in Nat /\ Cardinality(Requests) \in Nat
    BY <1>2, ClaimsAreFinite DEF Counted, FewAtOnce
  <2>4. CASE r \notin d
    <3>1. d \subseteq ClaimsWithin(t)
      BY <1>1, <2>1, <2>4 DEF ClaimsWithin, Claims, Busy, SameOthers, Same
    <3>2. Cardinality(d) \in Nat /\ Cardinality(d) <= Cardinality(ClaimsWithin(t))
      BY <2>3, <3>1, FS_Subset, FS_CardinalityType
    <3>3. Cardinality(Within(t)) + Cardinality(d) <= MaxAttempts + Cardinality(Requests) - 1
      BY <1>2, <2>2, <2>3, <3>2
    <3> QED BY <2>1, <2>2, <3>3
  <2>5. CASE r \in d
    <3>1. now <= t
      BY <1>1, <2>1, <2>5 DEF ClaimsWithin
    <3>2. Within(t) \subseteq {row \in attempts : row.at + CodeTtl >= now}
      <4> SUFFICES ASSUME NEW row \in Within(t) PROVE row \in attempts /\ row.at + CodeTtl >= now
          OBVIOUS
      <4>1. row \in attempts /\ row.at \in 0 .. MaxNow /\ row.at + CodeTtl >= t
        BY <1>2 DEF Within, Types
      <4> QED BY <1>2, <3>1, <4>1
    <3>3. Cardinality(Within(t)) <= Recent(now) /\ Recent(now) \in Nat
      <4>1. IsFiniteSet({row \in attempts : row.at + CodeTtl >= now})
        BY <1>3, FS_Subset
      <4> QED BY <3>2, <4>1, FS_Subset, FS_CardinalityType DEF Recent
    <3>4. Recent(now) <= MaxAttempts - 1
      BY <1>2, <3>3 DEF Locked
    <3>5. Cardinality(d) \in Nat /\ Cardinality(d) <= Cardinality(Requests)
      <4>1. d \subseteq Requests
        BY <2>1 DEF ClaimsWithin, Claims
      <4> QED BY <4>1, ClaimsAreFinite, FS_Subset, FS_CardinalityType
    <3>6. Cardinality(Within(t)) + Cardinality(d) <= MaxAttempts + Cardinality(Requests) - 1
      BY <1>2, <2>2, <2>3, <3>3, <3>4, <3>5
    <3> QED BY <2>1, <2>2, <3>6
  <2> QED BY <2>4, <2>5
<1> QED BY <1>4, <1>5 DEF Counted, FewAtOnce

\* What was to be written is written.
LEMMA FailureIsCounted ==
  ASSUME IInv, NEW r \in Requests, RecordFailure(r)
  PROVE  Counted'
<1>1. SameOthers(r) /\ request'[r].at = "idle" /\ At(r, "wrong") /\ begun' = begun
  BY EndsMeans DEF IInv, RecordFailure, counts
<1>2. request[r].since \in 0 .. MaxNow /\ r \in Claims /\ Counted /\ begun \in Nat /\ MaxAttempts \in Nat
  BY <1>1, HouseholdAssumption DEF HouseholdAssumption, IInv, Types, Requested, Request, Ops, Claims, Busy, At
<1>3. IsFiniteSet(attempts) /\ Cardinality(attempts) \in Nat
  BY <1>2, WithinIsFinite DEF Counted, Numbered
<1>4. PICK row : row = [id |-> Cardinality(attempts) + 1, at |-> request[r].since]
  OBVIOUS
<1>5. /\ attempts' = attempts \cup {row} /\ row \notin attempts
      /\ row.id = Cardinality(attempts) + 1 /\ row.at = request[r].since
  <2>1. \A old \in attempts : old.id \in 1 .. Cardinality(attempts)
    BY <1>2 DEF Counted, Numbered
  <2> QED BY <1>3, <1>4, <2>1 DEF RecordFailure
<1>6. IsFiniteSet(attempts') /\ Cardinality(attempts') = Cardinality(attempts) + 1
  BY <1>3, <1>5, FS_AddElement
<1>7. Numbered'
  <2>1. PICK c : c = Claims'
    OBVIOUS
  <2>2. c \subseteq Claims \ {r}
    BY <1>1, <2>1 DEF Claims, Busy, SameOthers, Same
  <2>3. Cardinality(c) \in Nat /\ Cardinality(c) + 1 <= Cardinality(Claims) /\ Cardinality(Claims) \in Nat
    BY <1>2, <2>2, ClaimsAreFinite, OneLess
  <2>4. /\ Cardinality(attempts) + Cardinality(Claims) <= begun
        /\ \A old \in attempts : old.id \in 1 .. Cardinality(attempts)
    BY <1>2 DEF Counted, Numbered
  <2>5. Cardinality(attempts') + Cardinality(c) <= begun
    BY <1>2, <1>3, <1>6, <2>3, <2>4
  <2>6. \A new \in attempts' : new.id \in 1 .. Cardinality(attempts')
    BY <1>3, <1>5, <1>6, <2>4
  <2> QED BY <1>1, <1>6, <2>1, <2>5, <2>6 DEF Numbered
<1>8. ASSUME NEW t \in 0 .. MaxNow
      PROVE  (Cardinality(Within(t)) + Cardinality(ClaimsWithin(t)) <= MaxAttempts + Cardinality(Requests) - 1)'
  <2>1. PICK d : d = ClaimsWithin(t)'
    OBVIOUS
  <2>2. PICK w : w = Within(t)'
    OBVIOUS
  <2>3. /\ Cardinality(Within(t)) + Cardinality(ClaimsWithin(t)) <= MaxAttempts + Cardinality(Requests) - 1
        /\ IsFiniteSet(ClaimsWithin(t)) /\ Cardinality(ClaimsWithin(t)) \in Nat /\ Cardinality(Requests) \in Nat
        /\ IsFiniteSet(Within(t)) /\ Cardinality(Within(t)) \in Nat
    BY <1>2, <1>3, ClaimsAreFinite, WithinIsFinite DEF Counted, FewAtOnce
  <2>4. d \subseteq ClaimsWithin(t) \ {r}
    BY <1>1, <2>1 DEF ClaimsWithin, Claims, Busy, SameOthers, Same
  <2>5. CASE r \in ClaimsWithin(t)
    <3>1. Cardinality(d) \in Nat /\ Cardinality(d) + 1 <= Cardinality(ClaimsWithin(t))
      BY <2>3, <2>4, <2>5, OneLess
    <3>2. w \subseteq Within(t) \cup {row}
      BY <1>5, <2>2 DEF Within
    <3>3. Cardinality(w) \in Nat /\ Cardinality(w) <= Cardinality(Within(t)) + 1
      BY <2>3, <3>2, OneMore
    <3>4. Cardinality(w) + Cardinality(d) <= MaxAttempts + Cardinality(Requests) - 1
      BY <1>2, <2>3, <3>1, <3>3
    <3> QED BY <2>1, <2>2, <3>4
  <2>6. CASE r \notin ClaimsWithin(t)
    <3>1. Cardinality(d) \in Nat /\ Cardinality(d) <= Cardinality(ClaimsWithin(t))
      <4>1. d \subseteq ClaimsWithin(t)
        BY <2>4
      <4> QED BY <2>3, <4>1, FS_Subset, FS_CardinalityType
    <3>2. ~ (row.at <= t /\ row.at + CodeTtl >= t)
      BY <1>2, <1>5, <2>6 DEF ClaimsWithin
    <3>3. w = Within(t)
      BY <1>5, <2>2, <3>2 DEF Within
    <3>4. Cardinality(w) + Cardinality(d) <= MaxAttempts + Cardinality(Requests) - 1
      BY <1>2, <2>3, <3>1, <3>3
    <3> QED BY <2>1, <2>2, <3>4
  <2> QED BY <2>5, <2>6
<1> QED BY <1>7, <1>8 DEF Counted, FewAtOnce

\* Another beginning that is no claim, and a claim that goes on, add none.
LEMMA OtherBeginningsCount ==
  ASSUME IInv, NEW r \in Requests, Arrives(r) \/ CountFamilies(r) \/ FindCode(r)
  PROVE  Counted'
<1>1. /\ SameOthers(r) /\ attempts' = attempts /\ (begun' = begun \/ begun' = begun + 1)
      /\ (SameCall(r) /\ Busy(r)) \/ request'[r].op # "claim"
  <2>1. CASE Arrives(r)
    <3>1. SameOthers(r) /\ attempts' = attempts /\ begun' = begun + 1 /\ request'[r].op \in Asked
      BY <2>1, ArrivesMeans DEF IInv
    <3> QED BY <3>1 DEF Asked
  <2>2. CASE CountFamilies(r)
    <3>1. SameOthers(r) /\ attempts' = attempts /\ begun' = begun + 1 /\ request'[r].op = None
      BY <2>2, CountFamiliesMeans DEF IInv
    <3> QED BY <3>1, HouseholdAssumption DEF HouseholdAssumption
  <2>3. CASE FindCode(r)
    BY <2>3, FindCodeMeans DEF IInv, At, Busy, counts
  <2> QED BY <2>1, <2>2, <2>3
<1>2. begun \in Nat
  BY DEF IInv, Types
<1> QED BY <1>1, <1>2, CountedKept DEF IInv

\* An erasure that begins, or has emptied the folder, knows what it knew.
LEMMA ErasureReads ==
  ASSUME IInv, NEW r \in Requests, EraseBegins(r) \/ EraseFiles(r)
  PROVE  Reads'
<1>1. SameOthers(r) /\ now' = now
  BY GoesMeans, EndsMeans DEF IInv, EraseBegins, EraseFiles, counts
<1>2. ReadsOf(r)
  BY OthersRead DEF IInv
<1>3. /\ At(r, "erase") \/ At(r, "emptying")
      /\ request[r].op = "erase"
  BY DEF IInv, Ops, EraseBegins, EraseFiles, At
<1>4. CASE request'[r].at = "idle"
  <2>1. request'[r].op = None
    BY <1>4, GoesMeans, EndsMeans DEF IInv, EraseBegins, EraseFiles
  <2>2. ReadsOf(r)'
    BY <1>4, <2>1, HouseholdAssumption DEF HouseholdAssumption, ReadsOf, At, Asked
  <2> QED BY <1>1, <2>2, OthersRead DEF IInv
<1>5. CASE request'[r].at # "idle"
  <2>1. /\ request'[r].at \in {"emptying", "folder"} /\ request'[r].op = "erase"
        /\ request'[r].fam = request[r].fam
    BY <1>3, <1>5, GoesMeans, EndsMeans DEF IInv, EraseBegins, EraseFiles, SameCall
  <2>2. ReadsOf(r)'
    BY <1>2, <1>3, <2>1 DEF ReadsOf, At, Fam
  <2> QED BY <1>1, <2>2, OthersRead DEF IInv
<1> QED BY <1>4, <1>5

\* What a claim and the clock change of the tables.
LEMMA ClaimBeginsTypes ==
  ASSUME IInv, NEW r \in Requests, ClaimBegins(r)
  PROVE  Types'
<1>1. /\ begun < MaxRequests /\ begun' = begun + 1
      /\ UNCHANGED <<tables, attempts, files, trail, now, faults, cameBy, out, corrected>>
  BY ClaimBeginsMeans DEF IInv, histories
<1>2. begun' \in 0 .. MaxRequests
  <2>1. begun \in 0 .. MaxRequests /\ MaxRequests \in Nat
    BY HouseholdAssumption DEF HouseholdAssumption, IInv, Types
  <2> QED BY <1>1, <2>1
<1> QED BY <1>1, <1>2 DEF IInv, Types, tables

LEMMA TimePassesTypes ==
  ASSUME IInv, TimePasses
  PROVE  Types'
<1>1. /\ now < MaxNow /\ now' = now + 1
      /\ UNCHANGED <<tables, attempts, files, trail, begun, faults, cameBy, out, corrected>>
  BY DEF TimePasses, histories
<1>2. /\ now \in 0 .. MaxNow /\ MaxNow \in Nat /\ CodeTtl \in Nat
      /\ codes \in [Codes -> {None} \cup CodeRecord]
      /\ \A c \in Codes : codes[c] # None => codes[c].until <= now + CodeTtl
  BY HouseholdAssumption DEF HouseholdAssumption, IInv, Types
<1>3. now' \in 0 .. MaxNow
  BY <1>1, <1>2
<1>4. \A c \in Codes : codes[c] # None => codes[c].until <= now' + CodeTtl
  BY <1>1, <1>2 DEF CodeRecord
<1> QED BY <1>1, <1>3, <1>4 DEF IInv, Types, tables

\* An upload's recording is nobody else's.
LEMMA UploadTells ==
  ASSUME IInv, NEW r \in Requests, UploadBytes(r)
  PROVE  OneFamilyPerRecording'
<1>1. /\ SameOthers(r) /\ request'[r].what \in Media \ given
      /\ media' = media /\ notes' = notes /\ ledger' = ledger
  BY UploadBytesMeans DEF IInv, tables
<1>2. ASSUME NEW m \in Media, NEW f \in Families, RecordingOf(m, f)'
      PROVE  RecordingOf(m, f) \/ (m = request'[r].what /\ Fam(r)' = f)
  BY <1>1, <1>2 DEF RecordingOf, SameOthers, Same, Fam, What
<1>3. ASSUME NEW f \in Families PROVE ~ RecordingOf(request'[r].what, f)
  <2>1. /\ media[request'[r].what] = None /\ notes[request'[r].what] = None
        /\ <<f, request'[r].what>> \notin ledger
    BY <1>1 DEF IInv, GivenMedia
  <2>2. \A q \in Requests : request[q].at \in {"recording", "keeping", "remember", "correcting"}
                              => request[q].what # request'[r].what
    BY <1>1 DEF IInv, GivenOut, GivenTo, What
  <2> QED BY <2>1, <2>2, HouseholdAssumption DEF HouseholdAssumption, RecordingOf, What
<1> SUFFICES ASSUME NEW m \in Media, NEW f \in Families, NEW g \in Families,
                    RecordingOf(m, f)', RecordingOf(m, g)'
             PROVE  f = g
    BY DEF OneFamilyPerRecording
<1> QED BY <1>2, <1>3 DEF IInv, OneFamilyPerRecording

---------------------------------------------------------------------------
(* Every step keeps the invariant.                                         *)

\* A request comes in for a device that is let in.
LEMMA ArrivesKeeps ==
  ASSUME IInv, NEW r \in Requests, Arrives(r)
  PROVE  IInv'
<1>1. LateIsDisturbing'
  BY ArrivesLate
<1>2. RevokedStaysOut' /\ Unknown'
  BY ArrivesRevoked
<1>3. Counted'
  BY OtherBeginningsCount
<1> USE DEF IInv, At, tables, Wanted, Authenticates, Meets, Busy, Fam, Late
<1>4. Types'
  <2>1. begun' \in 0 .. MaxRequests
    BY ArrivesMeans, HouseholdAssumption DEF Types, HouseholdAssumption
  <2>2. UNCHANGED <<families, devices, codes, attempts, media, files, notes, ledger, trail, cameBy, now, faults,
                    out, corrected>>
    BY ArrivesMeans
  <2> QED BY <2>1, <2>2 DEF Types
<1>5. Requested'
  BY ArrivesMeans DEF SameOthers, Same, Requested, SameCall
<1>6. Ops' /\ GivenDevices'
  BY ArrivesMeans DEF SameOthers, Same, Ops, Types, SameCall, GivenDevices
<1>7. GivenCodes' /\ OneFamilyPerDevice'
  BY ArrivesMeans DEF SameOthers, Same, GivenCodes, Types, SameCall, OneFamilyPerDevice, DeviceOf,
                      What
<1>8. OneFamilyPerCode'
  BY ArrivesMeans DEF SameOthers, Same, OneFamilyPerCode, Types, SameCall, CodeOf, What
<1>9. Reads'
  BY ArrivesMeans, OthersRead DEF Types, DeviceRecord, CodeRecord, NoteRecord, ReadsOf, What
<1>10. GivenMedia'
  BY ArrivesMeans DEF SameOthers, Same, GivenMedia
<1>11. GivenOut'
  BY ArrivesMeans, OthersGiven DEF GivenDevices, GivenTo, What
<1>12. OneFamilyPerRecording'
  BY ArrivesMeans DEF SameOthers, Same, OneFamilyPerRecording, Types, SameCall, RecordingOf, What
<1>13. TakenAway'
  BY ArrivesMeans DEF SameOthers, Same, TakenAway, SameCall, OfFamily
<1>14. NothingOutlivesTheFamily' /\ CorrectedAreThere'
  BY ArrivesMeans DEF SameOthers, Same, NothingOutlivesTheFamily, Types, SameCall, OfFamily,
                      CorrectedAreThere
<1>15. KeptIsAnswered' /\ KeepsAlone'
  <2>1. /\ SameOthers(r) /\ request'[r].at = "seen" /\ At(r, "idle")
        /\ disturbed \subseteq disturbed' /\ UNCHANGED <<families, notes, ledger, shaky>>
    BY ArrivesMeans
  <2>2. KeptIsAnswered'
    BY <2>1 DEF SameOthers, Same, KeptIsAnswered, Answered, What
  <2>3. KeepsAlone'
    BY <2>1 DEF SameOthers, Same, What, KeepsAlone, KeepingOf
  <2> QED BY <2>2, <2>3
<1>16. CorrectsInTime'
  <2>1. /\ SameOthers(r) /\ request'[r].at = "seen"
        /\ disturbed \subseteq disturbed' /\ UNCHANGED <<families, notes>>
    BY ArrivesMeans
  <2> QED BY <2>1 DEF SameOthers, Same, CorrectsInTime, What
<1>17. Overtaken'
  BY ArrivesMeans DEF SameOthers, Same, Overtaken, RevokedStaysOut
<1>18. CorrectionStands' /\ OpenIsUnused'
  BY ArrivesMeans DEF SameOthers, Same, CorrectionStands, Types, SameCall, OpenIsUnused, What
<1>19. GoesAlone' /\ CameAlone' /\ BoxDoor'
  <2>1. GoesAlone' /\ CameAlone'
    BY ArrivesMeans DEF SameOthers, Same, GoesAlone, CameAlone, What
  <2>2. BoxDoor'
    BY ArrivesMeans DEF SameOthers, Same, BoxDoor, Box
  <2> QED BY <2>1, <2>2
<1> QED BY <1>1, <1>2, <1>3, <1>4, <1>5, <1>6, <1>7, <1>8, <1>9, <1>10, <1>11, <1>12,
           <1>13, <1>14, <1>15, <1>16, <1>17, <1>18, <1>19 DEF IInv

\* A family that was never given out.
LEMMA CountFamiliesKeeps ==
  ASSUME IInv, NEW r \in Requests, CountFamilies(r)
  PROVE  IInv'
<1>1. LateIsDisturbing'
  BY CountFamiliesLate
<1>2. Counted'
  BY OtherBeginningsCount
<1> USE DEF IInv, At, Box, tables
<1>3. Types' /\ Requested'
  BY CountFamiliesMeans, HouseholdAssumption DEF SameOthers, Same, Types, Ops, Reads, DeviceRecord,
                                                 CodeRecord, NoteRecord, SameCall, ReadsOf, Fam,
                                                 What, Requested
<1>4. Ops' /\ GivenDevices'
  BY CountFamiliesMeans DEF SameOthers, Same, Ops, Types, SameCall, GivenDevices
<1>5. GivenCodes'
  BY CountFamiliesMeans DEF SameOthers, Same, GivenCodes, Types, SameCall
<1>6. OneFamilyPerDevice'
  BY CountFamiliesMeans DEF SameOthers, Same, OneFamilyPerDevice, Types, SameCall, DeviceOf, Fam,
                            What
<1>7. OneFamilyPerCode'
  BY CountFamiliesMeans DEF SameOthers, Same, OneFamilyPerCode, Types, SameCall, CodeOf, Fam, What
<1>8. Reads'
  BY SMTT(20), CountFamiliesMeans, OthersRead, HouseholdAssumption DEF Types, Ops, DeviceRecord, CodeRecord,
                                                             NoteRecord, Asked, SameCall, ReadsOf,
                                                             Fam, What
<1>9. GivenOut'
  BY CountFamiliesMeans, OthersGiven DEF Types, DeviceRecord, CodeRecord, NoteRecord, GivenTo, Fam,
                                         What
<1>10. GivenMedia'
  BY CountFamiliesMeans DEF SameOthers, Same, GivenMedia
<1>11. KeptIsAnswered'
  BY CountFamiliesMeans DEF SameOthers, Same, KeptIsAnswered, Answered, What
<1>12. OneFamilyPerRecording' /\ TakenAway'
  BY CountFamiliesMeans DEF SameOthers, Same, OneFamilyPerRecording, Types, SameCall, RecordingOf,
                            Fam, What, TakenAway, OfFamily
<1>13. NothingOutlivesTheFamily' /\ Overtaken'
  BY CountFamiliesMeans DEF SameOthers, Same, NothingOutlivesTheFamily, SameCall, OfFamily, Fam,
                            Overtaken
<1>14. RevokedStaysOut' /\ CorrectedAreThere' /\ KeepsAlone'
  BY CountFamiliesMeans DEF SameOthers, Same, RevokedStaysOut, Types, SameCall, CorrectedAreThere,
                            KeepsAlone, What, KeepingOf, Fam
<1>15. Unknown'
  BY CountFamiliesMeans, HouseholdAssumption DEF SameOthers, Same, Unknown, GivenDevices,
                                                 GivenCodes, GivenOut, Fam, GivenTo, What
<1>16. CorrectsInTime' /\ CorrectionStands' /\ OpenIsUnused' /\ GoesAlone' /\ CameAlone'
       /\ BoxDoor'
  BY CountFamiliesMeans DEF SameOthers, Same, CorrectsInTime, Types, SameCall, What, Fam,
                            CorrectionStands, OpenIsUnused, GoesAlone, CameAlone, BoxDoor
<1> QED BY <1>1, <1>2, <1>3, <1>4, <1>5, <1>6, <1>7, <1>8, <1>9, <1>10, <1>11, <1>12,
           <1>13, <1>14, <1>15, <1>16 DEF IInv

\* The family that was nobody's is there.
LEMMA FoundFamilyKeeps ==
  ASSUME IInv, NEW r \in Requests, FoundFamily(r)
  PROVE  IInv'
<1> USE DEF IInv, FoundFamily, At, Fam, counts, histories
<1>1. Types'
  BY DEF Types, Reads, ReadsOf, What
<1>2. Requested'
  BY GoesMeans DEF Requested, Ats
<1>3. Counted'
  BY GoesMeans, CountedKept, HouseholdAssumption DEF Types, SameCall, Busy
<1>4. Reads'
  BY SMTT(20), GoesMeans, OthersRead, HouseholdAssumption DEF Types, Ops, DeviceRecord, CodeRecord,
                                                    NoteRecord, Asked, SameCall, ReadsOf, What
<1>5. GivenDevices' /\ GivenCodes'
  BY GoesMeans DEF GivenDevices, Types, Same, SameOthers, SameCall, GivenCodes
<1>6. GivenMedia' /\ GivenOut'
  <2>1. GivenMedia'
    BY GoesMeans, OthersGiven DEF GivenMedia, Types, SameCall, DeviceRecord, CodeRecord, NoteRecord,
                                  GivenTo, What
  <2>2. GivenOut'
    BY GoesMeans, OthersGiven DEF GivenMedia, Types, SameCall, DeviceRecord, CodeRecord, NoteRecord,
                                  GivenTo, What
  <2> QED BY <2>1, <2>2
<1>7. OneFamilyPerDevice'
  BY GoesMeans DEF OneFamilyPerDevice, Types, Same, SameOthers, SameCall, DeviceOf, What
<1>8. Ops' /\ LateIsDisturbing' /\ RevokedStaysOut'
  BY GoesMeans DEF Ops, SameOthers, SameCall, Same, LateIsDisturbing, Busy, Late, RevokedStaysOut
<1>9. OneFamilyPerCode' /\ OneFamilyPerRecording'
  BY SMTT(20), GoesMeans DEF OneFamilyPerCode, Types, Same, SameOthers, SameCall, CodeOf, What,
                   OneFamilyPerRecording, RecordingOf
<1>10. Unknown'
  BY GoesMeans DEF Unknown, Types, Same, SameOthers, SameCall
<1>11. CorrectedAreThere'
  BY GoesMeans DEF CorrectedAreThere, Types, Same, SameOthers, SameCall
<1>12. KeepsAlone' /\ CorrectionStands' /\ OpenIsUnused'
  BY GoesMeans DEF KeepsAlone, Types, Same, SameOthers, SameCall, What, KeepingOf,
                   CorrectionStands, OpenIsUnused
<1>13. TakenAway' /\ NothingOutlivesTheFamily' /\ Overtaken'
  BY GoesMeans DEF TakenAway, SameOthers, OfFamily, Same, NothingOutlivesTheFamily, Overtaken
<1>14. KeptIsAnswered' /\ BoxDoor'
  BY GoesMeans DEF KeptIsAnswered, SameOthers, Answered, What, Same, BoxDoor, Box
<1>15. CorrectsInTime'
  BY GoesMeans DEF CorrectsInTime, Unknown, SameOthers, What, Same
<1>16. GoesAlone' /\ CameAlone'
  BY GoesMeans DEF GoesAlone, Types, Same, SameOthers, SameCall, What, CameAlone
<1> QED BY <1>1, <1>2, <1>3, <1>4, <1>5, <1>6, <1>7, <1>8, <1>9, <1>10, <1>11, <1>12,
           <1>13, <1>14, <1>15, <1>16 DEF IInv

\* A code is typed.
LEMMA ClaimBeginsKeeps ==
  ASSUME IInv, NEW r \in Requests, ClaimBegins(r)
  PROVE  IInv'
<1>1. Types'
  BY ClaimBeginsTypes
<1>2. Counted'
  BY ClaimIsCounted
<1> USE DEF IInv, At, tables, histories, Typed
<1>3. Requested'
  BY ClaimBeginsMeans DEF SameOthers, Same, Requested, SameCall
<1>4. Ops' /\ GivenDevices'
  BY ClaimBeginsMeans DEF SameOthers, Same, Ops, Types, SameCall, GivenDevices
<1>5. GivenCodes' /\ GivenMedia'
  BY ClaimBeginsMeans DEF SameOthers, Same, GivenCodes, Types, SameCall, GivenMedia
<1>6. OneFamilyPerDevice'
  BY ClaimBeginsMeans DEF SameOthers, Same, OneFamilyPerDevice, Types, SameCall, DeviceOf, Fam,
                          What
<1>7. Reads' /\ GivenOut' /\ Unknown'
  BY ClaimBeginsMeans, OthersRead, OthersGiven, UnknownKept, Strangers DEF Types, DeviceRecord,
                                                                           CodeRecord, NoteRecord,
                                                                           SameCall, ReadsOf, Fam,
                                                                           What, GivenTo
<1>8. OneFamilyPerCode' /\ OneFamilyPerRecording'
  BY ClaimBeginsMeans DEF SameOthers, Same, OneFamilyPerCode, Types, SameCall, CodeOf, Fam, What,
                          OneFamilyPerRecording, RecordingOf
<1>9. LateIsDisturbing' /\ TakenAway'
  BY ClaimBeginsMeans DEF SameOthers, Same, LateIsDisturbing, SameCall, Busy, Late, Fam, TakenAway,
                          OfFamily
<1>10. NothingOutlivesTheFamily' /\ Overtaken' /\ RevokedStaysOut'
  BY ClaimBeginsMeans DEF SameOthers, Same, NothingOutlivesTheFamily, SameCall, OfFamily, Fam,
                          Overtaken, RevokedStaysOut
<1>11. CorrectedAreThere' /\ KeptIsAnswered'
  BY ClaimBeginsMeans DEF SameOthers, Same, CorrectedAreThere, Types, SameCall, KeptIsAnswered,
                          Answered, What
<1>12. KeepsAlone' /\ CorrectsInTime'
  BY ClaimBeginsMeans DEF SameOthers, Same, KeepsAlone, Types, SameCall, What, KeepingOf, Fam,
                          CorrectsInTime
<1>13. CorrectionStands' /\ OpenIsUnused' /\ GoesAlone'
  BY ClaimBeginsMeans DEF SameOthers, Same, CorrectionStands, Types, SameCall, OpenIsUnused, What,
                          GoesAlone
<1>14. CameAlone' /\ BoxDoor'
  BY ClaimBeginsMeans DEF SameOthers, Same, CameAlone, Types, SameCall, BoxDoor, Box
<1> QED BY <1>1, <1>2, <1>3, <1>4, <1>5, <1>6, <1>7, <1>8, <1>9, <1>10, <1>11, <1>12,
           <1>13, <1>14 DEF IInv

\* It goes on with an open code, or is wrong.
LEMMA FindCodeKeeps ==
  ASSUME IInv, NEW r \in Requests, FindCode(r)
  PROVE  IInv'
<1>1. LateIsDisturbing' /\ Unknown'
  BY FindCodeLate
<1>2. Counted'
  BY OtherBeginningsCount
<1> USE DEF IInv, At, SameCall, What, tables, counts
<1>3. Types'
  BY FindCodeMeans DEF Types
<1>4. Requested'
  BY FindCodeMeans DEF SameOthers, Same, Requested
<1>5. Ops' /\ GivenDevices'
  BY FindCodeMeans DEF SameOthers, Same, Ops, Types, GivenDevices
<1>6. GivenCodes' /\ GivenMedia'
  <2>1. UNCHANGED <<tables, given>>
    BY FindCodeMeans
  <2> QED BY <2>1 DEF GivenCodes, GivenMedia
<1>7. OneFamilyPerDevice'
  BY FindCodeMeans DEF SameOthers, Same, OneFamilyPerDevice, Types, DeviceOf, Fam
<1>8. Reads'
  <2>1. ReadsOf(r) /\ (SameOthers(r) /\ now' = now /\ ReadsOf(r)' => Reads')
    BY OthersRead
  <2>2. request[r].op = "claim" /\ request'[r].op = "claim"
    BY FindCodeMeans DEF Ops
  <2>3. ReadsOf(r)'
    BY <2>1, <2>2, FindCodeMeans DEF Types, CodeRecord, ReadsOf, Fam
  <2> QED BY <2>1, <2>3, FindCodeMeans
<1>9. GivenOut'
  BY FindCodeMeans, OthersGiven DEF GivenCodes, GivenTo, Fam
<1>10. OneFamilyPerCode'
  BY FindCodeMeans DEF SameOthers, Same, OneFamilyPerCode, Types, CodeOf, Fam
<1>11. OneFamilyPerRecording'
  BY FindCodeMeans DEF SameOthers, Same, OneFamilyPerRecording, Types, RecordingOf, Fam
<1>12. TakenAway' /\ NothingOutlivesTheFamily'
  BY FindCodeMeans DEF SameOthers, Same, TakenAway, Fam, OfFamily, NothingOutlivesTheFamily
<1>13. Overtaken' /\ RevokedStaysOut' /\ CorrectedAreThere'
  BY FindCodeMeans DEF SameOthers, Same, Overtaken, Types, RevokedStaysOut, CorrectedAreThere
<1>14. KeptIsAnswered'
  BY FindCodeMeans DEF SameOthers, Same, KeptIsAnswered, Answered
<1>15. KeepsAlone' /\ CorrectsInTime' /\ CorrectionStands' /\ OpenIsUnused' /\ CameAlone'
       /\ BoxDoor'
  <2>1. KeepsAlone'
    BY FindCodeMeans DEF SameOthers, Same, KeepsAlone, Types, KeepingOf, Fam, CorrectsInTime,
                         CorrectionStands, OpenIsUnused, CameAlone, BoxDoor, Box
  <2>2. CorrectsInTime'
    BY FindCodeMeans DEF SameOthers, Same, KeepsAlone, Types, KeepingOf, Fam, CorrectsInTime,
                         CorrectionStands, OpenIsUnused, CameAlone, BoxDoor, Box
  <2>3. CorrectionStands'
    BY FindCodeMeans DEF SameOthers, Same, KeepsAlone, Types, KeepingOf, Fam, CorrectsInTime,
                         CorrectionStands, OpenIsUnused, CameAlone, BoxDoor, Box
  <2>4. OpenIsUnused'
    BY FindCodeMeans DEF SameOthers, Same, KeepsAlone, Types, KeepingOf, Fam, CorrectsInTime,
                         CorrectionStands, OpenIsUnused, CameAlone, BoxDoor, Box
  <2>5. CameAlone'
    BY FindCodeMeans DEF SameOthers, Same, KeepsAlone, Types, KeepingOf, Fam, CorrectsInTime,
                         CorrectionStands, OpenIsUnused, CameAlone, BoxDoor, Box
  <2>6. BoxDoor'
    BY FindCodeMeans DEF SameOthers, Same, KeepsAlone, Types, KeepingOf, Fam, CorrectsInTime,
                         CorrectionStands, OpenIsUnused, CameAlone, BoxDoor, Box
  <2> QED BY <2>1, <2>2, <2>3, <2>4, <2>5, <2>6
<1>16. GoesAlone'
  BY FindCodeMeans DEF SameOthers, Same, GoesAlone, OpenIsUnused
<1> QED BY <1>1, <1>2, <1>3, <1>4, <1>5, <1>6, <1>7, <1>8, <1>9, <1>10, <1>11, <1>12,
           <1>13, <1>14, <1>15, <1>16 DEF IInv

\* No device comes of it.
LEMMA JoinFailsKeeps ==
  ASSUME IInv, NEW r \in Requests, JoinFails(r)
  PROVE  IInv'
<1> USE DEF IInv, JoinFails, At, Fam, tables, counts, histories
<1>1. Types' /\ Counted'
  BY GoesMeans, EndsMeans, CountedKept, HouseholdAssumption DEF Types, SameCall, Busy
<1>2. Reads'
  BY GoesMeans, EndsMeans, OthersRead, HouseholdAssumption DEF Asked, SameCall, ReadsOf, What
<1>3. GivenDevices'
  BY GoesMeans, EndsMeans DEF GivenDevices, Types, Same, SameOthers, SameCall
<1>4. GivenCodes' /\ GivenMedia'
  BY GoesMeans, EndsMeans DEF GivenCodes, Types, Same, SameOthers, SameCall, GivenMedia
<1>5. GivenOut'
  BY GoesMeans, EndsMeans, OthersGiven DEF Types, DeviceRecord, CodeRecord, NoteRecord, GivenTo,
                                           What
<1>6. Requested'
  BY GoesMeans, EndsMeans DEF Requested, Ats
<1>7. Ops' /\ LateIsDisturbing' /\ RevokedStaysOut'
  BY GoesMeans, EndsMeans DEF Ops, SameOthers, SameCall, Same, LateIsDisturbing, Busy, Late,
                              RevokedStaysOut
<1>8. OneFamilyPerDevice' /\ OneFamilyPerCode'
  BY GoesMeans, EndsMeans DEF OneFamilyPerDevice, Types, Same, SameOthers, SameCall, DeviceOf,
                              What, OneFamilyPerCode, CodeOf
<1>9. OneFamilyPerRecording'
  BY GoesMeans, EndsMeans DEF OneFamilyPerRecording, Types, Same, SameOthers, SameCall,
                              RecordingOf, What
<1>10. Unknown'
  BY GoesMeans, EndsMeans, UnknownKept, Strangers DEF SameCall
<1>11. CorrectedAreThere' /\ KeepsAlone' /\ CorrectsInTime'
  BY GoesMeans, EndsMeans DEF CorrectedAreThere, Types, Same, SameOthers, SameCall, KeepsAlone,
                              What, KeepingOf, CorrectsInTime
<1>12. TakenAway' /\ NothingOutlivesTheFamily' /\ Overtaken'
  BY GoesMeans, EndsMeans DEF TakenAway, SameOthers, OfFamily, Same, NothingOutlivesTheFamily,
                              Overtaken
<1>13. KeptIsAnswered' /\ BoxDoor'
  BY GoesMeans, EndsMeans DEF KeptIsAnswered, SameOthers, Answered, What, Same, BoxDoor, Box
<1>14. CorrectionStands' /\ OpenIsUnused' /\ GoesAlone' /\ CameAlone'
  BY GoesMeans, EndsMeans DEF CorrectionStands, Types, Same, SameOthers, SameCall, OpenIsUnused,
                              What, GoesAlone, CameAlone
<1> QED BY <1>1, <1>2, <1>3, <1>4, <1>5, <1>6, <1>7, <1>8, <1>9, <1>10, <1>11, <1>12,
           <1>13, <1>14 DEF IInv

\* A claim fails once.
LEMMA RecordFailureKeeps ==
  ASSUME IInv, NEW r \in Requests, RecordFailure(r)
  PROVE  IInv'
<1>1. Types'
  BY RecordFailureTypes
<1>2. Counted'
  BY FailureIsCounted
<1> USE DEF IInv, RecordFailure, At, tables, counts, histories
<1>3. Requested' /\ Reads' /\ GivenDevices' /\ GivenCodes'
  <2>1. Requested' /\ SameOthers(r) /\ request'[r].at = "idle" /\ request'[r].op = None
    BY EndsMeans
  <2>2. ReadsOf(r)'
    BY <2>1, HouseholdAssumption DEF HouseholdAssumption, Asked, ReadsOf
  <2>3. Reads'
    BY <2>1, <2>2, OthersRead
  <2> QED BY <2>1, <2>3 DEF GivenDevices, GivenCodes
<1>4. GivenMedia' /\ GivenOut'
  BY EndsMeans, OthersGiven DEF GivenMedia, Types, SameCall, DeviceRecord, CodeRecord, NoteRecord,
                                GivenTo, Fam, What
<1>5. OneFamilyPerDevice'
  BY EndsMeans DEF OneFamilyPerDevice, Types, Same, SameOthers, SameCall, DeviceOf, Fam, What
<1>6. Ops' /\ LateIsDisturbing' /\ TakenAway'
  BY EndsMeans DEF Ops, SameOthers, Same, LateIsDisturbing, Busy, Late, Fam, TakenAway, OfFamily
<1>7. OneFamilyPerCode'
  BY EndsMeans DEF OneFamilyPerCode, Types, Same, SameOthers, SameCall, CodeOf, Fam, What
<1>8. OneFamilyPerRecording'
  BY EndsMeans DEF OneFamilyPerRecording, Types, Same, SameOthers, SameCall, RecordingOf, Fam, What
<1>9. Unknown' /\ CorrectedAreThere'
  BY EndsMeans, UnknownKept, Strangers DEF Types, SameCall, Fam, CorrectedAreThere
<1>10. KeptIsAnswered'
  BY EndsMeans DEF KeptIsAnswered, SameOthers, Answered, What, Same
<1>11. KeepsAlone'
  BY EndsMeans DEF KeepsAlone, Types, Same, SameOthers, SameCall, What, KeepingOf, Fam
<1>12. CorrectsInTime'
  BY EndsMeans DEF CorrectsInTime, Types, Same, SameOthers, SameCall, What, Fam
<1>13. NothingOutlivesTheFamily' /\ Overtaken' /\ RevokedStaysOut'
  BY EndsMeans DEF NothingOutlivesTheFamily, SameOthers, OfFamily, Fam, Same, Overtaken,
                   RevokedStaysOut
<1>14. CorrectionStands' /\ OpenIsUnused' /\ GoesAlone' /\ CameAlone'
  BY EndsMeans DEF CorrectionStands, Types, Same, SameOthers, SameCall, OpenIsUnused, What,
                   GoesAlone, CameAlone
<1>15. BoxDoor'
  BY EndsMeans DEF BoxDoor, SameOthers, Box, Same
<1> QED BY <1>1, <1>2, <1>3, <1>4, <1>5, <1>6, <1>7, <1>8, <1>9, <1>10, <1>11, <1>12,
           <1>13, <1>14, <1>15 DEF IInv

\* It goes on where its family is there.
LEMMA AddChildReadsKeeps ==
  ASSUME IInv, NEW r \in Requests, AddChildReads(r)
  PROVE  IInv'
<1> USE DEF IInv, AddChildReads, At, Fam, tables, counts, histories
<1>1. Types' /\ Counted'
  BY GoesMeans, EndsMeans, CountedKept, HouseholdAssumption DEF Types, SameCall, Busy
<1>2. Reads'
  BY GoesMeans, EndsMeans, OthersRead, HouseholdAssumption DEF Asked, SameCall, ReadsOf, What
<1>3. GivenDevices'
  BY GoesMeans, EndsMeans DEF GivenDevices, Types, Same, SameOthers, SameCall
<1>4. GivenCodes' /\ GivenMedia'
  BY GoesMeans, EndsMeans DEF GivenCodes, Types, Same, SameOthers, SameCall, GivenMedia
<1>5. GivenOut'
  BY GoesMeans, EndsMeans, OthersGiven DEF Types, DeviceRecord, CodeRecord, NoteRecord, GivenTo,
                                           What
<1>6. Requested'
  BY GoesMeans, EndsMeans DEF Requested, Ats
<1>7. Ops' /\ LateIsDisturbing' /\ RevokedStaysOut'
  BY GoesMeans, EndsMeans DEF Ops, SameOthers, SameCall, Same, LateIsDisturbing, Busy, Late,
                              RevokedStaysOut
<1>8. OneFamilyPerDevice' /\ OneFamilyPerCode'
  BY GoesMeans, EndsMeans DEF OneFamilyPerDevice, Types, Same, SameOthers, SameCall, DeviceOf,
                              What, OneFamilyPerCode, CodeOf
<1>9. OneFamilyPerRecording'
  BY GoesMeans, EndsMeans DEF OneFamilyPerRecording, Types, Same, SameOthers, SameCall,
                              RecordingOf, What
<1>10. Unknown'
  BY GoesMeans, EndsMeans, UnknownKept, Strangers DEF SameCall
<1>11. CorrectedAreThere' /\ KeepsAlone' /\ CorrectsInTime'
  BY GoesMeans, EndsMeans DEF CorrectedAreThere, Types, Same, SameOthers, SameCall, KeepsAlone,
                              What, KeepingOf, CorrectsInTime
<1>12. TakenAway' /\ NothingOutlivesTheFamily' /\ Overtaken'
  BY GoesMeans, EndsMeans DEF TakenAway, SameOthers, OfFamily, Same, NothingOutlivesTheFamily,
                              Overtaken
<1>13. KeptIsAnswered' /\ BoxDoor'
  BY GoesMeans, EndsMeans DEF KeptIsAnswered, SameOthers, Answered, What, Same, BoxDoor, Box
<1>14. CorrectionStands' /\ OpenIsUnused' /\ GoesAlone' /\ CameAlone'
  BY GoesMeans, EndsMeans DEF CorrectionStands, Types, Same, SameOthers, SameCall, OpenIsUnused,
                              What, GoesAlone, CameAlone
<1> QED BY <1>1, <1>2, <1>3, <1>4, <1>5, <1>6, <1>7, <1>8, <1>9, <1>10, <1>11, <1>12,
           <1>13, <1>14 DEF IInv

\* It writes its family back only where that is disturbed.
LEMMA AddChildSavesKeeps ==
  ASSUME IInv, NEW r \in Requests, AddChildSaves(r)
  PROVE  IInv'
<1>1. BoxDoor'
  BY AddChildSavesDoor
<1> USE DEF IInv, AddChildSaves, At, Fam, counts, histories
<1>2. Types'
  BY DEF Types, Reads, ReadsOf, What
<1>3. Requested' /\ Counted'
  BY EndsMeans, CountedKept, HouseholdAssumption DEF Requested, Types, SameCall, Busy
<1>4. Reads' /\ GivenDevices'
  BY SMTT(20), EndsMeans, OthersRead, HouseholdAssumption DEF Types, Ops, DeviceRecord, CodeRecord,
                                                    NoteRecord, Asked, SameCall, ReadsOf, What,
                                                    GivenDevices
<1>5. GivenCodes' /\ GivenOut'
  BY EndsMeans, OthersGiven DEF GivenCodes, Types, SameCall, DeviceRecord, CodeRecord, NoteRecord,
                                GivenTo, What
<1>6. OneFamilyPerDevice'
  BY EndsMeans DEF OneFamilyPerDevice, Types, Same, SameOthers, SameCall, DeviceOf, What
<1>7. Ops' /\ LateIsDisturbing' /\ TakenAway'
  BY EndsMeans DEF Ops, SameOthers, Same, LateIsDisturbing, Busy, Late, TakenAway, OfFamily
<1>8. GivenMedia'
  BY DEF GivenMedia
<1>9. OneFamilyPerCode' /\ OneFamilyPerRecording'
  BY EndsMeans DEF OneFamilyPerCode, Types, Same, SameOthers, SameCall, CodeOf, What,
                   OneFamilyPerRecording, RecordingOf
<1>10. Unknown' /\ CorrectedAreThere'
  BY EndsMeans, UnknownKept, Strangers DEF Types, SameCall, CorrectedAreThere
<1>11. KeepsAlone' /\ CorrectionStands' /\ OpenIsUnused'
  BY EndsMeans DEF KeepsAlone, Types, Same, SameOthers, SameCall, What, KeepingOf,
                   CorrectionStands, OpenIsUnused
<1>12. NothingOutlivesTheFamily' /\ Overtaken' /\ RevokedStaysOut'
  BY EndsMeans DEF NothingOutlivesTheFamily, SameOthers, OfFamily, Same, Overtaken, RevokedStaysOut
<1>13. KeptIsAnswered'
  BY EndsMeans DEF KeptIsAnswered, SameOthers, Answered, What, Same
<1>14. CorrectsInTime'
  BY EndsMeans DEF CorrectsInTime, LateIsDisturbing, Ops, SameOthers, What, Busy, Late, Same
<1>15. GoesAlone' /\ CameAlone'
  BY EndsMeans DEF GoesAlone, Types, Same, SameOthers, SameCall, What, CameAlone
<1> QED BY <1>1, <1>2, <1>3, <1>4, <1>5, <1>6, <1>7, <1>8, <1>9, <1>10, <1>11, <1>12,
           <1>13, <1>14, <1>15 DEF IInv

\* So does an export.
LEMMA ExportReadsKeeps ==
  ASSUME IInv, NEW r \in Requests, ExportReads(r)
  PROVE  IInv'
<1> USE DEF IInv, ExportReads, At, Fam, tables, counts, histories
<1>1. Types' /\ Counted'
  BY GoesMeans, EndsMeans, CountedKept, HouseholdAssumption DEF Types, SameCall, Busy
<1>2. Reads'
  BY GoesMeans, EndsMeans, OthersRead, HouseholdAssumption DEF Asked, SameCall, ReadsOf, What
<1>3. GivenDevices'
  BY GoesMeans, EndsMeans DEF GivenDevices, Types, Same, SameOthers, SameCall
<1>4. GivenCodes' /\ GivenMedia'
  BY GoesMeans, EndsMeans DEF GivenCodes, Types, Same, SameOthers, SameCall, GivenMedia
<1>5. GivenOut'
  BY GoesMeans, EndsMeans, OthersGiven DEF Types, DeviceRecord, CodeRecord, NoteRecord, GivenTo,
                                           What
<1>6. Requested'
  BY GoesMeans, EndsMeans DEF Requested, Ats
<1>7. Ops' /\ LateIsDisturbing' /\ RevokedStaysOut'
  BY GoesMeans, EndsMeans DEF Ops, SameOthers, SameCall, Same, LateIsDisturbing, Busy, Late,
                              RevokedStaysOut
<1>8. OneFamilyPerDevice' /\ OneFamilyPerCode'
  BY GoesMeans, EndsMeans DEF OneFamilyPerDevice, Types, Same, SameOthers, SameCall, DeviceOf,
                              What, OneFamilyPerCode, CodeOf
<1>9. OneFamilyPerRecording'
  BY GoesMeans, EndsMeans DEF OneFamilyPerRecording, Types, Same, SameOthers, SameCall,
                              RecordingOf, What
<1>10. Unknown'
  BY GoesMeans, EndsMeans, UnknownKept, Strangers DEF SameCall
<1>11. CorrectedAreThere' /\ KeepsAlone' /\ CorrectsInTime'
  BY GoesMeans, EndsMeans DEF CorrectedAreThere, Types, Same, SameOthers, SameCall, KeepsAlone,
                              What, KeepingOf, CorrectsInTime
<1>12. TakenAway' /\ NothingOutlivesTheFamily' /\ Overtaken'
  BY GoesMeans, EndsMeans DEF TakenAway, SameOthers, OfFamily, Same, NothingOutlivesTheFamily,
                              Overtaken
<1>13. KeptIsAnswered' /\ BoxDoor'
  BY GoesMeans, EndsMeans DEF KeptIsAnswered, SameOthers, Answered, What, Same, BoxDoor, Box
<1>14. CorrectionStands' /\ OpenIsUnused' /\ GoesAlone' /\ CameAlone'
  BY GoesMeans, EndsMeans DEF CorrectionStands, Types, Same, SameOthers, SameCall, OpenIsUnused,
                              What, GoesAlone, CameAlone
<1> QED BY <1>1, <1>2, <1>3, <1>4, <1>5, <1>6, <1>7, <1>8, <1>9, <1>10, <1>11, <1>12,
           <1>13, <1>14 DEF IInv

\* It writes a trail only where its family is, or is disturbed.
LEMMA ExportPublishesKeeps ==
  ASSUME IInv, NEW r \in Requests, ExportPublishes(r)
  PROVE  IInv'
<1> USE DEF IInv, ExportPublishes, At, Fam, tables, counts, histories
<1>1. Types' /\ Counted'
  <2>1. Types'
    BY DEF Types, Reads, ReadsOf, What
  <2>2. Counted'
    BY EndsMeans, CountedKept, HouseholdAssumption DEF Requested, Types, SameCall, Busy
  <2> QED BY <2>1, <2>2
<1>2. Reads'
  BY EndsMeans, OthersRead, HouseholdAssumption DEF Asked, SameCall, ReadsOf, What
<1>3. GivenDevices'
  BY EndsMeans DEF GivenDevices, Types, Same, SameOthers, SameCall
<1>4. GivenCodes' /\ GivenMedia'
  BY EndsMeans DEF GivenCodes, Types, Same, SameOthers, SameCall, GivenMedia
<1>5. GivenOut'
  BY EndsMeans, OthersGiven DEF Types, DeviceRecord, CodeRecord, NoteRecord, GivenTo,
                                           What
<1>6. Requested'
  BY EndsMeans DEF Requested, Ats
<1>7. Ops' /\ LateIsDisturbing' /\ RevokedStaysOut'
  BY EndsMeans DEF Ops, SameOthers, SameCall, Same, LateIsDisturbing, Busy, Late,
                              RevokedStaysOut
<1>8. OneFamilyPerDevice' /\ OneFamilyPerCode'
  BY EndsMeans DEF OneFamilyPerDevice, Types, Same, SameOthers, SameCall, DeviceOf,
                              What, OneFamilyPerCode, CodeOf
<1>9. OneFamilyPerRecording'
  BY EndsMeans DEF OneFamilyPerRecording, Types, Same, SameOthers, SameCall,
                              RecordingOf, What
<1>10. Unknown'
  BY EndsMeans, UnknownKept, Strangers DEF SameCall
<1>11. CorrectedAreThere' /\ KeepsAlone' /\ CorrectsInTime'
  BY EndsMeans DEF CorrectedAreThere, Types, Same, SameOthers, SameCall, KeepsAlone,
                              What, KeepingOf, CorrectsInTime
<1>12. TakenAway' /\ Overtaken'
  BY EndsMeans DEF TakenAway, SameOthers, OfFamily, Same, Overtaken
<1>13. NothingOutlivesTheFamily'
  <2>1. Fam(r) \in families \cup disturbed
    BY DEF LateIsDisturbing, Ops, Busy, Late
  <2> QED BY <2>1, EndsMeans DEF NothingOutlivesTheFamily, SameOthers, OfFamily, Same
<1>14. KeptIsAnswered' /\ BoxDoor'
  BY EndsMeans DEF KeptIsAnswered, SameOthers, Answered, What, Same, BoxDoor, Box
<1>15. CorrectionStands' /\ OpenIsUnused' /\ GoesAlone' /\ CameAlone'
  BY EndsMeans DEF CorrectionStands, Types, Same, SameOthers, SameCall, OpenIsUnused,
                              What, GoesAlone, CameAlone
<1> QED BY <1>1, <1>2, <1>3, <1>4, <1>5, <1>6, <1>7, <1>8, <1>9, <1>10, <1>11, <1>12,
           <1>14, <1>15, <1>13 DEF IInv

\* Bytes under an id nobody had.
LEMMA UploadBytesKeeps ==
  ASSUME IInv, NEW r \in Requests, UploadBytes(r)
  PROVE  IInv'
<1>1. OneFamilyPerRecording'
  BY UploadTells
<1> USE DEF IInv, At, SameCall, Fam, tables, counts, histories
<1>2. Types'
  BY UploadBytesMeans DEF SameOthers, Same, Types, Ops, Reads, DeviceRecord, ReadsOf, What
<1>3. Requested'
  BY UploadBytesMeans DEF SameOthers, Same, Requested
<1>4. Ops' /\ GivenDevices'
  BY UploadBytesMeans DEF SameOthers, Same, Ops, Types, GivenDevices
<1>5. GivenCodes' /\ OneFamilyPerDevice' /\ OneFamilyPerCode'
  BY UploadBytesMeans DEF SameOthers, Same, GivenCodes, Types, OneFamilyPerDevice, DeviceOf, What,
                          OneFamilyPerCode, CodeOf
<1>6. Counted'
  BY UploadBytesMeans, CountedKept, HouseholdAssumption DEF Types, Busy
<1>7. GivenOut'
  BY UploadBytesMeans, OthersGiven DEF Types, DeviceRecord, CodeRecord, NoteRecord, GivenTo, What
<1>8. Unknown'
  BY UploadBytesMeans, UnknownKept, Strangers
<1>9. Reads'
  BY UploadBytesMeans, OthersRead DEF Ops, ReadsOf, What
<1>10. GivenMedia'
  BY UploadBytesMeans DEF SameOthers, Same, GivenMedia
<1>11. LateIsDisturbing' /\ Overtaken' /\ RevokedStaysOut' /\ CorrectedAreThere'
  BY UploadBytesMeans DEF SameOthers, Same, LateIsDisturbing, Types, Busy, Late, Overtaken,
                          RevokedStaysOut, CorrectedAreThere
<1>12. KeptIsAnswered'
  BY UploadBytesMeans DEF SameOthers, Same, KeptIsAnswered, Types, Answered, What
<1>13. KeepsAlone'
  BY UploadBytesMeans DEF SameOthers, Same, KeepsAlone, Types, What, KeepingOf
<1>14. CorrectsInTime'
  BY UploadBytesMeans DEF SameOthers, Same, CorrectsInTime, Types, What
<1>15. TakenAway'
  BY UploadBytesMeans DEF SameOthers, Same, TakenAway, LateIsDisturbing, Ops, OfFamily, Busy, Late
<1>16. NothingOutlivesTheFamily'
  BY UploadBytesMeans DEF SameOthers, Same, NothingOutlivesTheFamily, LateIsDisturbing, TakenAway,
                          OneFamilyPerCode, OneFamilyPerRecording, Ops, OfFamily, Busy, Late,
                          CodeOf, RecordingOf, What
<1>17. CorrectionStands' /\ OpenIsUnused' /\ GoesAlone' /\ CameAlone' /\ BoxDoor'
  BY UploadBytesMeans DEF SameOthers, Same, CorrectionStands, Types, OpenIsUnused, What, GoesAlone,
                          CameAlone, BoxDoor, Box
<1> QED BY <1>1, <1>2, <1>3, <1>4, <1>5, <1>6, <1>7, <1>8, <1>9, <1>10, <1>11, <1>12,
           <1>13, <1>14, <1>15, <1>16, <1>17 DEF IInv

\* A media row of a family that is there or disturbed.
LEMMA UploadRecordsKeeps ==
  ASSUME IInv, NEW r \in Requests, UploadRecords(r)
  PROVE  IInv'
<1> USE DEF IInv, UploadRecords, At, What, Fam, counts, histories
<1>1. Types'
  BY DEF Types, Reads, ReadsOf
<1>2. Requested' /\ Counted'
  BY EndsMeans, CountedKept, HouseholdAssumption DEF Requested, Types, SameCall, Busy
<1>3. Reads' /\ GivenDevices'
  BY SMTT(20), EndsMeans, OthersRead, HouseholdAssumption DEF Types, Ops, DeviceRecord, CodeRecord,
                                                    NoteRecord, Asked, SameCall, ReadsOf,
                                                    GivenDevices
<1>4. GivenCodes' /\ GivenOut'
  BY EndsMeans, OthersGiven DEF GivenCodes, Types, SameCall, DeviceRecord, CodeRecord, NoteRecord,
                                GivenTo
<1>5. OneFamilyPerDevice'
  BY EndsMeans DEF OneFamilyPerDevice, Types, Same, SameOthers, SameCall, DeviceOf
<1>6. Ops' /\ LateIsDisturbing' /\ Overtaken'
  BY EndsMeans DEF Ops, SameOthers, Same, LateIsDisturbing, Busy, Late, Overtaken
<1>7. GivenMedia'
  BY DEF GivenMedia, GivenOut, GivenTo
<1>8. OneFamilyPerCode'
  BY EndsMeans DEF OneFamilyPerCode, Types, Same, SameOthers, SameCall, CodeOf
<1>9. OneFamilyPerRecording'
  BY EndsMeans DEF OneFamilyPerRecording, Types, Same, SameOthers, SameCall, RecordingOf
<1>10. Unknown' /\ CorrectedAreThere'
  BY EndsMeans, UnknownKept, Strangers DEF Types, SameCall, CorrectedAreThere
<1>11. KeptIsAnswered' /\ KeepsAlone' /\ CorrectsInTime'
  <2>1. KeptIsAnswered'
    BY EndsMeans DEF KeptIsAnswered, SameOthers, Answered, What, Same
  <2>2. KeepsAlone'
    BY EndsMeans DEF KeepsAlone, Types, Same, SameOthers, SameCall, What, KeepingOf, Fam
  <2>3. CorrectsInTime'
    BY EndsMeans DEF CorrectsInTime, Types, Same, SameOthers, SameCall
  <2> QED BY <2>1, <2>2, <2>3
<1>12. TakenAway'
  BY EndsMeans DEF TakenAway, LateIsDisturbing, NothingOutlivesTheFamily, Ops, SameOthers,
                   OfFamily, Busy, Late, Same
<1>13. NothingOutlivesTheFamily'
  BY EndsMeans DEF NothingOutlivesTheFamily, LateIsDisturbing, TakenAway, Ops, SameOthers,
                   OfFamily, Busy, Late, Same
<1>14. RevokedStaysOut' /\ BoxDoor'
  BY EndsMeans DEF RevokedStaysOut, SameOthers, Same, BoxDoor, Box
<1>15. CorrectionStands' /\ OpenIsUnused' /\ GoesAlone' /\ CameAlone'
  BY EndsMeans DEF CorrectionStands, Types, Same, SameOthers, SameCall, OpenIsUnused, GoesAlone,
                   CameAlone
<1> QED BY <1>1, <1>2, <1>3, <1>4, <1>5, <1>6, <1>7, <1>8, <1>9, <1>10, <1>11, <1>12,
           <1>13, <1>14, <1>15 DEF IInv

\* What was kept is answered from now on.
LEMMA RememberKeeps ==
  ASSUME IInv, NEW r \in Requests, Remember(r)
  PROVE  IInv'
<1>1. KeptIsAnswered'
  BY RememberAnswers
<1> USE DEF IInv, Remember, At, Fam, What, counts, histories
<1>2. Types'
  BY DEF Types, Ops, Reads, ReadsOf
<1>3. Requested' /\ Counted' /\ Reads' /\ GivenDevices'
  BY EndsMeans, CountedKept, HouseholdAssumption, OthersRead DEF Requested, Types, Ops, SameCall,
                                                                 Busy, DeviceRecord, CodeRecord,
                                                                 NoteRecord, Asked, ReadsOf,
                                                                 GivenDevices
<1>4. GivenCodes' /\ GivenOut'
  BY EndsMeans, OthersGiven DEF GivenCodes, Types, SameCall, DeviceRecord, CodeRecord, NoteRecord,
                                GivenTo
<1>5. OneFamilyPerDevice'
  BY EndsMeans DEF OneFamilyPerDevice, Types, Same, SameOthers, SameCall, DeviceOf
<1>6. Ops' /\ LateIsDisturbing' /\ TakenAway'
  BY EndsMeans DEF Ops, SameOthers, Same, LateIsDisturbing, Busy, Late, TakenAway, OfFamily
<1>7. GivenMedia'
  BY EndsMeans DEF GivenMedia, GivenOut, GivenTo
<1>8. OneFamilyPerCode'
  BY EndsMeans DEF OneFamilyPerCode, Types, Same, SameOthers, SameCall, CodeOf
<1>9. OneFamilyPerRecording'
  BY EndsMeans DEF OneFamilyPerRecording, Types, Same, SameOthers, SameCall, RecordingOf
<1>10. Unknown' /\ CorrectedAreThere'
  BY EndsMeans, UnknownKept, Strangers DEF Types, SameCall, CorrectedAreThere
<1>11. KeepsAlone' /\ CorrectsInTime' /\ CorrectionStands'
  BY EndsMeans DEF KeepsAlone, Types, Same, SameOthers, SameCall, KeepingOf, CorrectsInTime,
                   CorrectionStands
<1>12. NothingOutlivesTheFamily' /\ Overtaken' /\ RevokedStaysOut'
  BY EndsMeans DEF NothingOutlivesTheFamily, SameOthers, OfFamily, Same, Overtaken, RevokedStaysOut
<1>13. OpenIsUnused' /\ GoesAlone' /\ CameAlone'
  BY EndsMeans DEF OpenIsUnused, Types, Same, SameOthers, SameCall, GoesAlone, CameAlone
<1>14. BoxDoor'
  BY EndsMeans DEF BoxDoor, SameOthers, Box, Same
<1> QED BY <1>1, <1>2, <1>3, <1>4, <1>5, <1>6, <1>7, <1>8, <1>9, <1>10, <1>11, <1>12,
           <1>13, <1>14 DEF IInv

\* An erasure begins where the family is there.
LEMMA EraseBeginsKeeps ==
  ASSUME IInv, NEW r \in Requests, EraseBegins(r)
  PROVE  IInv'
<1>1. Reads'
  BY ErasureReads
<1> USE DEF IInv, EraseBegins, At, Fam, tables, counts, histories
<1>2. Types' /\ Counted'
  BY GoesMeans, EndsMeans, CountedKept, HouseholdAssumption DEF Types, SameCall, Busy
<1>3. GivenDevices'
  BY GoesMeans, EndsMeans DEF GivenDevices, Types, Same, SameOthers, SameCall
<1>4. GivenCodes' /\ GivenMedia'
  BY GoesMeans, EndsMeans DEF GivenCodes, Types, Same, SameOthers, SameCall, GivenMedia
<1>5. GivenOut'
  BY GoesMeans, EndsMeans, OthersGiven DEF Types, DeviceRecord, CodeRecord, NoteRecord, GivenTo,
                                           What
<1>6. Requested'
  BY GoesMeans, EndsMeans DEF Requested, Ats
<1>7. Ops' /\ LateIsDisturbing' /\ RevokedStaysOut'
  BY GoesMeans, EndsMeans DEF Ops, SameOthers, SameCall, Same, LateIsDisturbing, Busy, Late,
                              RevokedStaysOut
<1>8. OneFamilyPerDevice' /\ OneFamilyPerCode'
  BY GoesMeans, EndsMeans DEF OneFamilyPerDevice, Types, Same, SameOthers, SameCall, DeviceOf,
                              What, OneFamilyPerCode, CodeOf
<1>9. OneFamilyPerRecording'
  BY GoesMeans, EndsMeans DEF OneFamilyPerRecording, Types, Same, SameOthers, SameCall,
                              RecordingOf, What
<1>10. Unknown'
  BY GoesMeans, EndsMeans, UnknownKept, Strangers DEF SameCall
<1>11. CorrectedAreThere' /\ KeepsAlone' /\ CorrectsInTime'
  BY GoesMeans, EndsMeans DEF CorrectedAreThere, Types, Same, SameOthers, SameCall, KeepsAlone,
                              What, KeepingOf, CorrectsInTime
<1>12. TakenAway' /\ NothingOutlivesTheFamily' /\ Overtaken'
  BY GoesMeans, EndsMeans DEF TakenAway, SameOthers, OfFamily, Same, NothingOutlivesTheFamily,
                              Overtaken
<1>13. KeptIsAnswered' /\ BoxDoor'
  BY GoesMeans, EndsMeans DEF KeptIsAnswered, SameOthers, Answered, What, Same, BoxDoor, Box
<1>14. CorrectionStands' /\ OpenIsUnused' /\ GoesAlone' /\ CameAlone'
  BY GoesMeans, EndsMeans DEF CorrectionStands, Types, Same, SameOthers, SameCall, OpenIsUnused,
                              What, GoesAlone, CameAlone
<1> QED BY <1>1, <1>2, <1>3, <1>4, <1>5, <1>6, <1>7, <1>8, <1>9, <1>10, <1>11, <1>12,
           <1>13, <1>14 DEF IInv

\* No file of the family is left.
LEMMA EraseFilesKeeps ==
  ASSUME IInv, NEW r \in Requests, EraseFiles(r)
  PROVE  IInv'
<1>1. Reads'
  BY ErasureReads
<1> USE DEF IInv, EraseFiles, At, OfFamily, Fam, tables, counts, histories
<1>2. Types' /\ Counted'
  BY GoesMeans, CountedKept, HouseholdAssumption DEF Types, SameCall, Busy
<1>3. GivenDevices'
  BY GoesMeans DEF GivenDevices, Types, Same, SameOthers, SameCall
<1>4. GivenCodes' /\ GivenOut'
  BY GoesMeans, OthersGiven DEF GivenCodes, Types, SameCall, DeviceRecord, CodeRecord, NoteRecord,
                                GivenTo, What
<1>5. OneFamilyPerDevice'
  BY GoesMeans DEF OneFamilyPerDevice, Types, Same, SameOthers, SameCall, DeviceOf, What
<1>6. Requested'
  BY GoesMeans DEF Requested, Ats
<1>7. Ops' /\ LateIsDisturbing' /\ RevokedStaysOut'
  BY GoesMeans DEF Ops, SameOthers, SameCall, Same, LateIsDisturbing, Busy, Late, RevokedStaysOut
<1>8. GivenMedia'
  BY DEF GivenMedia
<1>9. OneFamilyPerCode'
  BY GoesMeans DEF OneFamilyPerCode, Types, Same, SameOthers, SameCall, CodeOf, What
<1>10. OneFamilyPerRecording'
  BY GoesMeans DEF OneFamilyPerRecording, Types, Same, SameOthers, SameCall, RecordingOf, What
<1>11. Unknown' /\ CorrectedAreThere'
  BY GoesMeans, UnknownKept, Strangers DEF Types, SameCall, CorrectedAreThere
<1>12. KeepsAlone' /\ CorrectsInTime' /\ CorrectionStands'
  BY GoesMeans DEF KeepsAlone, Types, Same, SameOthers, SameCall, What, KeepingOf, CorrectsInTime,
                   CorrectionStands
<1>13. TakenAway' /\ NothingOutlivesTheFamily' /\ Overtaken'
  BY GoesMeans DEF TakenAway, SameOthers, Same, NothingOutlivesTheFamily, Overtaken
<1>14. KeptIsAnswered' /\ BoxDoor'
  BY GoesMeans DEF KeptIsAnswered, SameOthers, Answered, What, Same, BoxDoor, Box
<1>15. OpenIsUnused' /\ GoesAlone' /\ CameAlone'
  BY GoesMeans DEF OpenIsUnused, Types, Same, SameOthers, SameCall, What, GoesAlone, CameAlone
<1> QED BY <1>1, <1>2, <1>3, <1>4, <1>5, <1>6, <1>7, <1>8, <1>9, <1>10, <1>11, <1>12,
           <1>13, <1>14, <1>15 DEF IInv

\* It goes on only where no file came since.
LEMMA EraseFolderKeeps ==
  ASSUME IInv, NEW r \in Requests, EraseFolder(r)
  PROVE  IInv'
<1>1. Reads'
  BY EraseFolderReads
<1> USE DEF IInv, EraseFolder, At, OfFamily, Fam, tables, counts, histories
<1>2. Types' /\ Counted'
  <2>1. Types'
    BY DEF Types
  <2>2. SameOthers(r) /\ ((SameCall(r) /\ Busy(r)) \/ request'[r].at = "idle")
    BY GoesMeans, EndsMeans DEF Busy
  <2>3. begun \in Nat
    BY HouseholdAssumption DEF Types, HouseholdAssumption
  <2>4. Counted'
    BY <2>2, <2>3, CountedKept
  <2> QED BY <2>1, <2>4
<1>3. GivenDevices' /\ GivenCodes'
  BY GoesMeans, EndsMeans DEF GivenDevices, Types, Same, SameOthers, SameCall, GivenCodes
<1>4. GivenMedia'
  BY GoesMeans, EndsMeans DEF GivenMedia, Types, Same, SameOthers, SameCall
<1>5. GivenOut'
  BY GoesMeans, EndsMeans, OthersGiven DEF Types, DeviceRecord, CodeRecord, NoteRecord, GivenTo,
                                           What
<1>6. OneFamilyPerDevice'
  BY GoesMeans, EndsMeans DEF OneFamilyPerDevice, Types, Same, SameOthers, SameCall, DeviceOf, What
<1>7. Requested'
  BY GoesMeans, EndsMeans DEF Requested, Ats
<1>8. Ops' /\ LateIsDisturbing' /\ RevokedStaysOut'
  BY GoesMeans, EndsMeans DEF Ops, SameOthers, SameCall, Same, LateIsDisturbing, Busy, Late,
                              RevokedStaysOut
<1>9. OneFamilyPerCode'
  BY GoesMeans, EndsMeans DEF OneFamilyPerCode, Types, Same, SameOthers, SameCall, CodeOf, What
<1>10. OneFamilyPerRecording'
  BY GoesMeans, EndsMeans DEF OneFamilyPerRecording, Types, Same, SameOthers, SameCall,
                              RecordingOf, What
<1>11. Unknown' /\ CorrectedAreThere'
  BY GoesMeans, EndsMeans, UnknownKept, Strangers DEF Types, SameCall, CorrectedAreThere
<1>12. KeptIsAnswered'
  BY SMTT(20), GoesMeans, EndsMeans DEF KeptIsAnswered, Types, Same, SameOthers, SameCall, Answered, What
<1>13. KeepsAlone'
  BY GoesMeans, EndsMeans DEF KeepsAlone, Types, Same, SameOthers, SameCall, What, KeepingOf
<1>14. CorrectsInTime'
  BY GoesMeans, EndsMeans DEF CorrectsInTime, Types, Same, SameOthers, SameCall, What
<1>15. TakenAway' /\ NothingOutlivesTheFamily' /\ Overtaken'
  BY GoesMeans, EndsMeans DEF TakenAway, SameOthers, Same, NothingOutlivesTheFamily, Overtaken
<1>16. CorrectionStands' /\ OpenIsUnused' /\ GoesAlone' /\ CameAlone'
  BY GoesMeans, EndsMeans DEF CorrectionStands, Types, Same, SameOthers, SameCall, OpenIsUnused,
                              What, GoesAlone, CameAlone
<1>17. BoxDoor'
  BY GoesMeans, EndsMeans DEF BoxDoor, SameOthers, Box, Same
<1> QED BY <1>1, <1>2, <1>3, <1>4, <1>5, <1>6, <1>7, <1>8, <1>9, <1>10, <1>11, <1>12,
           <1>13, <1>14, <1>15, <1>16, <1>17 DEF IInv

\* Nothing of the trail is left.
LEMMA EraseTrailKeeps ==
  ASSUME IInv, NEW r \in Requests, EraseTrail(r)
  PROVE  IInv'
<1> USE DEF IInv, EraseTrail, At, Fam, tables, counts, histories
<1>1. Types' /\ Requested'
  BY EndsMeans DEF Types, Requested
<1>2. Counted'
  BY EndsMeans, CountedKept, HouseholdAssumption DEF Types, SameCall, Busy
<1>3. Reads'
  BY EndsMeans, OthersRead, HouseholdAssumption DEF Types, Ops, DeviceRecord, CodeRecord,
                                                    NoteRecord, Asked, SameCall, ReadsOf, What
<1>4. GivenDevices' /\ GivenCodes' /\ GivenOut'
  BY EndsMeans, OthersGiven DEF GivenDevices, Types, SameCall, DeviceRecord, CodeRecord,
                                NoteRecord, GivenCodes, GivenTo, What
<1>5. Ops' /\ LateIsDisturbing' /\ TakenAway'
  BY EndsMeans DEF Ops, SameOthers, Same, LateIsDisturbing, Busy, Late, TakenAway, OfFamily
<1>6. GivenMedia'
  BY DEF GivenMedia
<1>7. OneFamilyPerDevice' /\ OneFamilyPerCode'
  BY EndsMeans DEF OneFamilyPerDevice, Types, Same, SameOthers, SameCall, DeviceOf, What,
                   OneFamilyPerCode, CodeOf
<1>8. OneFamilyPerRecording'
  BY EndsMeans DEF OneFamilyPerRecording, Types, Same, SameOthers, SameCall, RecordingOf, What
<1>9. Unknown'
  BY EndsMeans, UnknownKept, Strangers DEF SameCall
<1>10. CorrectedAreThere' /\ KeptIsAnswered' /\ KeepsAlone'
  BY SMTT(20), EndsMeans DEF CorrectedAreThere, Types, Same, SameOthers, SameCall, KeptIsAnswered, Answered,
                   What, KeepsAlone, KeepingOf
<1>11. NothingOutlivesTheFamily' /\ Overtaken' /\ RevokedStaysOut'
  BY EndsMeans DEF NothingOutlivesTheFamily, SameOthers, OfFamily, Same, Overtaken, RevokedStaysOut
<1>12. CorrectsInTime' /\ CorrectionStands' /\ OpenIsUnused' /\ GoesAlone' /\ CameAlone'
  BY EndsMeans DEF CorrectsInTime, Types, Same, SameOthers, SameCall, What, CorrectionStands,
                   OpenIsUnused, GoesAlone, CameAlone
<1>13. BoxDoor'
  BY EndsMeans DEF BoxDoor, SameOthers, Box, Same
<1> QED BY <1>1, <1>2, <1>3, <1>4, <1>5, <1>6, <1>7, <1>8, <1>9, <1>10, <1>11, <1>12,
           <1>13 DEF IInv

\* A row comes back as it was read.
LEMMA IsSeenKeeps ==
  ASSUME IInv, NEW r \in Requests, IsSeen(r)
  PROVE  IInv'
<1>1. Reads' /\ GivenOut'
  BY SeenReads
<1>2. OneFamilyPerDevice' /\ OneFamilyPerRecording'
  BY SeenTells
<1>3. RevokedStaysOut' /\ Unknown' /\ OpenIsUnused' /\ GoesAlone'
  BY SeenStaysOut
<1> USE DEF IInv, IsSeen, At, Moved, WentOn, Fam, DeviceWritten, counts, histories, SameCall
<1>4. Types' /\ Requested'
  BY HouseholdAssumption DEF SameOthers, Same, Types, Ops, Reads, DeviceRecord, CodeRecord,
                             NoteRecord, Ats, Rows, ReadsOf, What, Requested
<1>5. GivenCodes' /\ LateIsDisturbing'
  BY DEF SameOthers, Same, GivenCodes, Types, LateIsDisturbing, Busy, Late
<1>6. Overtaken' /\ CorrectedAreThere'
  BY DEF SameOthers, Same, Overtaken, Types, CorrectedAreThere
<1>7. KeptIsAnswered'
  BY DEF SameOthers, Same, KeptIsAnswered, Answered, What
<1>8. Counted'
  BY CountedKept, HouseholdAssumption DEF Types, Busy
<1>9. Ops' /\ OneFamilyPerCode' /\ TakenAway'
  BY DEF SameOthers, Same, Ops, Asked, OneFamilyPerCode, CodeOf, What, TakenAway, OfFamily
<1>10. GivenDevices'
  BY HouseholdAssumption DEF SameOthers, Same, GivenDevices, GivenOut, GivenTo, What
<1>11. GivenMedia'
  BY DEF SameOthers, Same, GivenMedia
<1>12. KeepsAlone' /\ CorrectsInTime' /\ BoxDoor'
  BY DEF SameOthers, Same, KeepsAlone, Asked, What, KeepingOf, CorrectsInTime, BoxDoor, Box
<1>13. CorrectionStands' /\ CameAlone'
  BY DEF SameOthers, Same, CorrectionStands, Types, CameAlone
<1>14. NothingOutlivesTheFamily'
  BY <1>4, SeenOutlivesNothing
<1> QED BY <1>1, <1>2, <1>3, <1>4, <1>5, <1>6, <1>7, <1>8, <1>9, <1>10, <1>11, <1>12,
           <1>13, <1>14 DEF IInv

\* The only keep of a recording writes where no note was.
LEMMA IsKeptKeeps ==
  ASSUME IInv, NEW r \in Requests, IsKept(r)
  PROVE  IInv'
<1>1. KeepsAlone'
  BY KeptAlone
<1> USE DEF IInv, IsKept, At, Moved, WentOn, What, Fam, NoteWritten, counts, histories, SameCall
<1>2. Types' /\ Requested' /\ Ops' /\ GivenDevices'
  BY HouseholdAssumption DEF SameOthers, Same, Types, Ops, Reads, DeviceRecord, CodeRecord,
                             NoteRecord, Ats, Rows, ReadsOf, Requested, GivenDevices
<1>3. GivenCodes' /\ OneFamilyPerDevice'
  BY DEF SameOthers, Same, GivenCodes, Types, OneFamilyPerDevice, DeviceOf
<1>4. OneFamilyPerCode'
  BY DEF SameOthers, Same, OneFamilyPerCode, Types, CodeOf
<1>5. Counted'
  BY CountedKept, HouseholdAssumption DEF Types, Busy
<1>6. Reads'
  BY OthersRead, HouseholdAssumption DEF Types, Ops, DeviceRecord, CodeRecord, NoteRecord, Asked,
                                         ReadsOf
<1>7. GivenOut' /\ Unknown'
  BY OthersGiven, HouseholdAssumption, UnknownKept, Strangers DEF Types, Ops, DeviceRecord,
                                                                  CodeRecord, NoteRecord, Asked,
                                                                  GivenTo
<1>8. GivenMedia'
  BY DEF SameOthers, Same, GivenMedia, GivenOut, GivenTo
<1>9. OneFamilyPerRecording'
  BY SMTT(20) DEF SameOthers, Same, OneFamilyPerRecording, Types, RecordingOf
<1>10. LateIsDisturbing'
  BY DEF SameOthers, Same, LateIsDisturbing, Types, Busy, Late
<1>11. TakenAway' /\ NothingOutlivesTheFamily'
  BY DEF SameOthers, Same, TakenAway, Types, OfFamily, NothingOutlivesTheFamily
<1>12. Overtaken' /\ RevokedStaysOut' /\ CorrectedAreThere'
  BY DEF SameOthers, Same, Overtaken, Types, RevokedStaysOut, CorrectedAreThere
<1>13. KeptIsAnswered'
  BY DEF SameOthers, Same, KeptIsAnswered, Answered
<1>14. OpenIsUnused'
  BY DEF SameOthers, Same, OpenIsUnused, Types
<1>15. GoesAlone'
  BY DEF SameOthers, Same, GoesAlone, Types
<1>16. CameAlone' /\ BoxDoor'
  BY DEF SameOthers, Same, CameAlone, Types, BoxDoor, Box
<1>17. CorrectsInTime'
  BY DEF SameOthers, Same, CorrectsInTime, Ops, Reads, ReadsOf
<1>18. CorrectionStands'
  BY DEF SameOthers, Same, CorrectionStands, KeepsAlone, Types, KeepingOf
<1> QED BY <1>1, <1>2, <1>3, <1>4, <1>5, <1>6, <1>7, <1>8, <1>9, <1>10, <1>11, <1>12,
           <1>13, <1>14, <1>15, <1>16, <1>17, <1>18 DEF IInv

\* No media row of the family is left.
LEMMA UnlistedKeeps ==
  ASSUME IInv, NEW r \in Requests, Unlisted(r)
  PROVE  IInv'
<1>1. TakenAway'
  BY UnlistedTakes
<1> USE DEF IInv, Unlisted, At, Moved, WentOn, Fam, counts, histories, SameCall
<1>2. Types' /\ Requested'
  BY HouseholdAssumption DEF SameOthers, Same, Types, Ops, Reads, DeviceRecord, CodeRecord,
                             NoteRecord, Ats, Rows, ReadsOf, What, Requested
<1>3. Ops' /\ GivenDevices'
  BY DEF SameOthers, Same, Ops, Types, GivenDevices
<1>4. GivenCodes' /\ GivenMedia'
  BY DEF SameOthers, Same, GivenCodes, Types, GivenMedia
<1>5. OneFamilyPerDevice'
  BY DEF SameOthers, Same, OneFamilyPerDevice, Types, DeviceOf, What
<1>6. Counted'
  BY CountedKept, HouseholdAssumption DEF Types, Busy
<1>7. Reads'
  BY OthersRead, HouseholdAssumption DEF Types, Ops, DeviceRecord, CodeRecord, NoteRecord, Asked,
                                         ReadsOf, What
<1>8. Unknown'
  BY UnknownKept, Strangers
<1>9. GivenOut'
  BY OthersGiven DEF GivenTo, What
<1>10. OneFamilyPerCode' /\ LateIsDisturbing' /\ Overtaken' /\ RevokedStaysOut'
  BY DEF SameOthers, Same, OneFamilyPerCode, Types, CodeOf, What, LateIsDisturbing, Busy, Late,
         Overtaken, RevokedStaysOut
<1>11. CorrectedAreThere' /\ KeepsAlone' /\ CorrectsInTime'
  BY DEF SameOthers, Same, CorrectedAreThere, Types, KeepsAlone, What, KeepingOf, CorrectsInTime
<1>12. OneFamilyPerRecording' /\ NothingOutlivesTheFamily'
  BY HouseholdAssumption DEF SameOthers, Same, OneFamilyPerRecording, RecordingOf, What,
                             NothingOutlivesTheFamily, OfFamily
<1>13. KeptIsAnswered'
  BY DEF SameOthers, Same, KeptIsAnswered, CorrectedAreThere, Answered, What
<1>14. CorrectionStands' /\ OpenIsUnused' /\ GoesAlone' /\ CameAlone' /\ BoxDoor'
  BY DEF SameOthers, Same, CorrectionStands, Types, OpenIsUnused, What, GoesAlone, CameAlone,
         BoxDoor, Box
<1> QED BY <1>1, <1>2, <1>3, <1>4, <1>5, <1>6, <1>7, <1>8, <1>9, <1>10, <1>11, <1>12,
           <1>13, <1>14 DEF IInv

\* No row of the family is left.
LEMMA ErasedKeeps ==
  ASSUME IInv, NEW r \in Requests, Erased(r)
  PROVE  IInv'
<1>1. LateIsDisturbing' /\ KeptIsAnswered' /\ KeepsAlone' /\ CorrectsInTime'
  BY ErasedLeaves
<1> USE DEF IInv, Erased, At, Moved, WentOn, Fam, counts, SameCall
<1>2. Types' /\ Requested'
  BY SMTT(20), HouseholdAssumption DEF SameOthers, Same, Types, Ops, Reads, DeviceRecord, CodeRecord,
                             NoteRecord, Ats, Rows, ReadsOf, What, Requested
<1>3. Ops' /\ GivenDevices'
  BY DEF SameOthers, Same, Ops, Types, GivenDevices
<1>4. GivenCodes' /\ GivenMedia'
  BY DEF SameOthers, Same, GivenCodes, Types, GivenMedia
<1>5. OneFamilyPerCode'
  BY DEF SameOthers, Same, OneFamilyPerCode, Types, CodeOf, What
<1>6. Counted'
  BY CountedKept, HouseholdAssumption DEF Types, Busy
<1>7. Unknown'
  BY UnknownKept, Strangers
<1>8. Reads'
  BY OthersRead DEF ReadsOf, What
<1>9. GivenOut'
  BY OthersGiven DEF GivenTo, What
<1>10. OneFamilyPerDevice'
  BY DEF SameOthers, Same, OneFamilyPerDevice, DeviceOf, What
<1>11. OneFamilyPerRecording'
  BY DEF SameOthers, Same, OneFamilyPerRecording, RecordingOf, What
<1>12. TakenAway'
  BY DEF SameOthers, Same, TakenAway, Types, OfFamily
<1>13. Overtaken' /\ RevokedStaysOut'
  BY DEF SameOthers, Same, Overtaken, Types, RevokedStaysOut
<1>14. CorrectedAreThere' /\ CorrectionStands' /\ OpenIsUnused'
  BY DEF SameOthers, Same, CorrectedAreThere, Types, CorrectionStands, OpenIsUnused, What
<1>15. NothingOutlivesTheFamily'
  BY DEF SameOthers, Same, NothingOutlivesTheFamily, LateIsDisturbing, TakenAway, Types, Ops,
         OfFamily, Busy, Late
<1>16. GoesAlone' /\ CameAlone'
  BY DEF SameOthers, Same, GoesAlone, Types, What, CameAlone
<1>17. BoxDoor'
  BY DEF SameOthers, Same, BoxDoor, Types, Box
<1> QED BY <1>1, <1>2, <1>3, <1>4, <1>5, <1>6, <1>7, <1>8, <1>9, <1>10, <1>11, <1>12,
           <1>13, <1>14, <1>15, <1>16, <1>17 DEF IInv

\* A request that is over holds nothing.
LEMMA EndedKeeps ==
  ASSUME IInv, NEW r \in Requests, Ended(r)
  PROVE  IInv'
<1>1. Reads' /\ GivenOut'
  BY EndedReads DEF Ended, Moved, counts
<1> USE DEF IInv, Ended, Moved, Idled, At, tables, counts, histories
<1>2. Types' /\ Requested'
  BY HouseholdAssumption DEF SameOthers, Same, Types, Ops, Reads, DeviceRecord, CodeRecord,
                             NoteRecord, SameCall, Ats, Rows, ReadsOf, Fam, What, Requested
<1>3. Ops' /\ GivenDevices'
  BY DEF SameOthers, Same, Ops, Types, SameCall, GivenDevices
<1>4. GivenCodes' /\ OneFamilyPerDevice'
  BY DEF SameOthers, Same, GivenCodes, Types, SameCall, OneFamilyPerDevice, DeviceOf, Fam, What
<1>5. OneFamilyPerCode'
  BY DEF SameOthers, Same, OneFamilyPerCode, Types, SameCall, CodeOf, Fam, What
<1>6. Counted'
  BY CountedKept, HouseholdAssumption DEF Types, SameCall, Busy
<1>7. Unknown'
  BY UnknownKept, Strangers DEF SameCall, Fam
<1>8. GivenMedia' /\ KeptIsAnswered'
  BY DEF SameOthers, Same, GivenMedia, KeptIsAnswered, Answered, What
<1>9. OneFamilyPerRecording' /\ LateIsDisturbing' /\ TakenAway' /\ NothingOutlivesTheFamily'
  BY SMTT(20) DEF SameOthers, Same, OneFamilyPerRecording, Types, SameCall, RecordingOf, Fam, What,
         LateIsDisturbing, Busy, Late, TakenAway, OfFamily, NothingOutlivesTheFamily
<1>10. Overtaken' /\ RevokedStaysOut' /\ CorrectedAreThere'
  BY DEF SameOthers, Same, Overtaken, Types, SameCall, RevokedStaysOut, CorrectedAreThere
<1>11. KeepsAlone' /\ CorrectsInTime' /\ CorrectionStands' /\ OpenIsUnused' /\ GoesAlone'
       /\ CameAlone' /\ BoxDoor'
  BY DEF SameOthers, Same, KeepsAlone, Types, SameCall, What, KeepingOf, Fam, CorrectsInTime,
         CorrectionStands, OpenIsUnused, GoesAlone, CameAlone, BoxDoor, Box
<1> QED BY <1>1, <1>2, <1>3, <1>4, <1>5, <1>6, <1>7, <1>8, <1>9, <1>10, <1>11 DEF IInv

\* It holds the row that is there.
LEMMA RevokeHoldsKeeps ==
  ASSUME IInv, NEW r \in Requests, NEW row, RevokeHolds(r, row)
  PROVE  IInv'
<1> USE DEF IInv, RevokeHolds, At, Reading, What, Moved, WentOn, Fam, tables, counts, SameCall
<1>1. Types' /\ Requested'
  BY HouseholdAssumption DEF SameOthers, Same, Types, Ops, Reads, DeviceRecord, CodeRecord,
                             NoteRecord, Ats, Rows, ReadsOf, Requested
<1>2. Ops' /\ GivenDevices'
  BY DEF SameOthers, Same, Ops, Types, GivenDevices
<1>3. GivenCodes' /\ OneFamilyPerDevice' /\ OneFamilyPerCode'
  <2>1. GivenCodes'
    BY DEF GivenCodes
  <2>2. What(r)' = What(r) /\ \A f : Fam(r)' = f => DeviceOf(What(r), f)
    BY DEF DeviceOf
  <2> QED BY <2>1, <2>2, NoNewDevice, NoNewCode
<1>4. Counted' /\ Unknown'
  BY CountedKept, HouseholdAssumption, UnknownKept, Strangers DEF Types, Busy
<1>5. Reads'
  BY OthersRead DEF ReadsOf
<1>6. GivenMedia'
  BY DEF SameOthers, Same, GivenMedia
<1>7. GivenOut'
  BY OthersGiven DEF GivenDevices, GivenTo
<1>8. OneFamilyPerRecording' /\ LateIsDisturbing'
  <2>1. LateIsDisturbing'
    BY DEF SameOthers, Same, Types, LateIsDisturbing, Busy, Late
  <2> QED BY <2>1, NoNewRecording
<1>9. TakenAway' /\ NothingOutlivesTheFamily'
  BY DEF SameOthers, Same, TakenAway, Types, OfFamily, NothingOutlivesTheFamily
<1>10. Overtaken' /\ RevokedStaysOut' /\ CorrectedAreThere'
  BY DEF SameOthers, Same, Overtaken, Types, RevokedStaysOut, CorrectedAreThere
<1>11. KeptIsAnswered' /\ GoesAlone' /\ BoxDoor'
  BY NothingKept, NobodyGoes
<1>12. KeepsAlone' /\ CorrectsInTime' /\ CorrectionStands' /\ OpenIsUnused' /\ CameAlone'
  BY DEF SameOthers, Same, KeepsAlone, KeepingOf, Types, CorrectsInTime, CorrectionStands, OpenIsUnused,
         CameAlone
<1> QED BY <1>1, <1>2, <1>3, <1>4, <1>5, <1>6, <1>7, <1>8, <1>9, <1>10, <1>11, <1>12 DEF IInv

\* It holds the row that is there.
LEMMA CorrectHoldsKeeps ==
  ASSUME IInv, NEW r \in Requests, NEW row, CorrectHolds(r, row)
  PROVE  IInv'
<1> USE DEF IInv, CorrectHolds, At, Reading, What, Moved, WentOn, Fam, tables, counts, SameCall
<1>1. Types' /\ Requested' /\ Ops' /\ GivenDevices'
  BY HouseholdAssumption DEF SameOthers, Same, Types, Ops, Reads, DeviceRecord, CodeRecord,
                             NoteRecord, Ats, Rows, ReadsOf, Requested, GivenDevices
<1>2. GivenCodes' /\ OneFamilyPerDevice' /\ OneFamilyPerCode'
  BY DEF SameOthers, Same, GivenCodes, Types, OneFamilyPerDevice, DeviceOf, OneFamilyPerCode,
         CodeOf
<1>3. Counted' /\ Unknown'
  BY CountedKept, HouseholdAssumption, UnknownKept, Strangers DEF Types, Busy
<1>4. Reads'
  BY OthersRead DEF ReadsOf
<1>5. GivenMedia'
  BY DEF SameOthers, Same, GivenMedia
<1>6. GivenOut'
  BY OthersGiven DEF GivenMedia, GivenTo
<1>7. OneFamilyPerRecording'
  <2>1. request'[r].fam = notes[What(r)].family /\ What(r)' = What(r)
    OBVIOUS
  <2> QED BY <2>1, NoNewRecording DEF RecordingOf
<1>8. LateIsDisturbing'
  BY DEF SameOthers, Same, LateIsDisturbing, Types, Busy, Late
<1>9. TakenAway' /\ NothingOutlivesTheFamily'
  BY DEF SameOthers, Same, TakenAway, Types, OfFamily, NothingOutlivesTheFamily
<1>10. Overtaken' /\ RevokedStaysOut' /\ CorrectedAreThere'
  BY DEF SameOthers, Same, Overtaken, Types, RevokedStaysOut, CorrectedAreThere
<1>11. KeptIsAnswered'
  BY NothingKept
<1>12. KeepsAlone'
  BY DEF SameOthers, Same, KeepsAlone, Types, KeepingOf
<1>13. CorrectsInTime' /\ CorrectionStands'
  BY DEF SameOthers, Same, CorrectsInTime, Types, CorrectionStands
<1>14. OpenIsUnused' /\ GoesAlone' /\ CameAlone'
  BY DEF SameOthers, Same, OpenIsUnused, Types, GoesAlone, CameAlone
<1>15. BoxDoor'
  BY DEF SameOthers, Same, BoxDoor, Types, Box
<1> QED BY <1>1, <1>2, <1>3, <1>4, <1>5, <1>6, <1>7, <1>8, <1>9, <1>10, <1>11, <1>12,
           <1>13, <1>14, <1>15 DEF IInv

\* It is the only keep of its recording, or that it is not is known of.
LEMMA KeepHoldsKeeps ==
  ASSUME IInv, NEW r \in Requests, NEW row, KeepHolds(r, row)
  PROVE  IInv'
<1>1. KeepsAlone'
  BY KeepHoldsAlone
<1> USE DEF IInv, KeepHolds, At, Reading, What, Answered, Fam, KeepingOf, Moved, WentOn, tables,
            counts, SameCall
<1>2. Types' /\ Requested'
  BY HouseholdAssumption DEF SameOthers, Same, Types, Ops, Reads, DeviceRecord, CodeRecord,
                             NoteRecord, Ats, Rows, ReadsOf, Requested
<1>3. Ops' /\ GivenDevices'
  BY DEF SameOthers, Same, Ops, Types, GivenDevices
<1>4. GivenCodes' /\ GivenMedia'
  BY DEF SameOthers, Same, GivenCodes, Types, GivenMedia
<1>5. OneFamilyPerDevice'
  BY NoNewDevice
<1>6. Counted'
  BY CountedKept, HouseholdAssumption DEF Types, Busy
<1>7. Reads'
  BY SMTT(20), OthersRead, HouseholdAssumption DEF Types, Ops, DeviceRecord, CodeRecord, NoteRecord, Asked,
                                         ReadsOf
<1>8. Unknown'
  BY UnknownKept, Strangers
<1>9. GivenOut'
  BY OthersGiven, HouseholdAssumption DEF GivenMedia, GivenTo
<1>10. OneFamilyPerCode'
  BY NoNewCode
<1>11. OneFamilyPerRecording'
  <2>1. request'[r].fam = media[What(r)] /\ What(r)' = What(r)
    OBVIOUS
  <2> QED BY <2>1, NoNewRecording DEF RecordingOf
<1>12. LateIsDisturbing' /\ TakenAway'
  BY DEF SameOthers, Same, LateIsDisturbing, Types, Busy, Late, TakenAway, OfFamily
<1>13. NothingOutlivesTheFamily' /\ Overtaken' /\ RevokedStaysOut'
  BY DEF SameOthers, Same, NothingOutlivesTheFamily, Types, OfFamily, Overtaken, RevokedStaysOut
<1>14. CorrectedAreThere' /\ CorrectionStands' /\ CameAlone'
  BY DEF CorrectedAreThere, Types, CorrectionStands, CameAlone
<1>15. CorrectsInTime' /\ OpenIsUnused'
  BY DEF SameOthers, Same, CorrectsInTime, OpenIsUnused
<1>16. GoesAlone' /\ BoxDoor'
  BY NobodyGoes
<1>17. KeptIsAnswered'
  BY DEF SameOthers, Same, KeptIsAnswered
<1> QED BY <1>1, <1>2, <1>3, <1>4, <1>5, <1>6, <1>7, <1>8, <1>9, <1>10, <1>11, <1>12,
           <1>13, <1>14, <1>15, <1>16, <1>17 DEF IInv

\* Whoever is being let in meanwhile is known of.
LEMMA IsRevokedKeeps ==
  ASSUME IInv, NEW r \in Requests, NEW row, IsRevoked(r, row)
  PROVE  IInv'
<1>1. Reads' /\ GivenOut'
  BY EndedReads DEF IsRevoked, Moved, counts
<1> USE DEF IInv, IsRevoked, At, Moved, Idled, What, Fam, DeviceWritten, counts
<1>2. Types' /\ Requested'
  BY HouseholdAssumption DEF SameOthers, Same, Types, Ops, Reads, DeviceRecord, CodeRecord,
                             NoteRecord, SameCall, Ats, Rows, ReadsOf, Requested
<1>3. Ops' /\ GivenCodes'
  BY DEF SameOthers, Same, Ops, Types, SameCall, GivenCodes
<1>4. GivenMedia'
  BY DEF SameOthers, Same, GivenMedia, Types, SameCall
<1>5. OneFamilyPerDevice'
  BY DEF SameOthers, Same, OneFamilyPerDevice, Types, SameCall, DeviceOf
<1>6. OneFamilyPerCode'
  BY DEF SameOthers, Same, OneFamilyPerCode, Types, SameCall, CodeOf
<1>7. Counted' /\ Unknown'
  BY CountedKept, HouseholdAssumption, UnknownKept, Strangers DEF Types, SameCall, Busy
<1>8. GivenDevices'
  BY HouseholdAssumption DEF SameOthers, Same, GivenDevices, GivenOut, GivenTo
<1>9. OneFamilyPerRecording' /\ LateIsDisturbing'
  <2>1. LateIsDisturbing'
    BY DEF SameOthers, Same, LateIsDisturbing, Busy, Late
  <2> QED BY <2>1, NoNewRecording
<1>10. TakenAway' /\ Overtaken'
  BY DEF SameOthers, Same, TakenAway, Types, SameCall, OfFamily, Overtaken
<1>11. RevokedStaysOut' /\ CorrectedAreThere' /\ KeepsAlone'
  BY DEF SameOthers, Same, RevokedStaysOut, Types, SameCall, CorrectedAreThere, KeepsAlone,
         KeepingOf
<1>12. KeptIsAnswered'
  BY DEF SameOthers, Same, KeptIsAnswered, Answered
<1>13. CorrectsInTime' /\ CorrectionStands' /\ OpenIsUnused' /\ GoesAlone' /\ CameAlone'
       /\ BoxDoor'
  BY DEF SameOthers, Same, CorrectsInTime, Types, SameCall, CorrectionStands, OpenIsUnused,
         GoesAlone, CameAlone, BoxDoor, Box
<1>14. NothingOutlivesTheFamily'
  BY <1>2, RevokedOutlivesNothing
<1> QED BY <1>1, <1>2, <1>3, <1>4, <1>5, <1>6, <1>7, <1>8, <1>9, <1>10, <1>11, <1>12,
           <1>13, <1>14 DEF IInv

\* The code is used up.
LEMMA ConsumedKeeps ==
  ASSUME IInv, NEW r \in Requests, NEW row, Consumed(r, row)
  PROVE  IInv'
<1>1. Types'
  BY ConsumedTypes
<1> USE DEF IInv, Consumed, At, Moved, WentOn, What, Fam, CodeWritten, counts, histories, SameCall
<1>2. Requested' /\ Ops' /\ GivenDevices' /\ OneFamilyPerDevice'
  BY DEF SameOthers, Same, Requested, Types, Ats, Rows, Ops, GivenDevices, OneFamilyPerDevice,
         DeviceOf
<1>3. OneFamilyPerCode'
  BY DEF SameOthers, Same, OneFamilyPerCode, Types, CodeOf
<1>4. OneFamilyPerRecording'
  BY DEF SameOthers, Same, OneFamilyPerRecording, Types, RecordingOf
<1>5. LateIsDisturbing'
  BY DEF SameOthers, Same, LateIsDisturbing, Types, Busy, Late
<1>6. Counted'
  BY CountedKept, HouseholdAssumption DEF Types, Busy
<1>7. GivenOut'
  BY OthersGiven, HouseholdAssumption DEF Types, Ops, DeviceRecord, CodeRecord, NoteRecord, Asked,
                                          GivenTo
<1>8. Unknown'
  BY UnknownKept, Strangers
<1>9. Reads'
  BY OthersRead DEF ReadsOf
<1>10. GivenCodes'
  BY HouseholdAssumption DEF SameOthers, Same, GivenCodes, GivenOut, GivenTo
<1>11. GivenMedia'
  BY DEF SameOthers, Same, GivenMedia
<1>12. KeptIsAnswered'
  BY DEF SameOthers, Same, KeptIsAnswered, Answered
<1>13. TakenAway' /\ Overtaken' /\ RevokedStaysOut' /\ CorrectedAreThere' /\ KeepsAlone'
       /\ CorrectsInTime' /\ CorrectionStands'
  BY DEF SameOthers, Same, TakenAway, Types, OfFamily, Overtaken, RevokedStaysOut,
         CorrectedAreThere, KeepsAlone, KeepingOf, CorrectsInTime, CorrectionStands
<1>14. OpenIsUnused' /\ GoesAlone' /\ CameAlone' /\ BoxDoor'
  BY DEF SameOthers, Same, OpenIsUnused, Types, GoesAlone, CameAlone, BoxDoor, Box
<1>15. NothingOutlivesTheFamily'
  BY <1>1, ConsumedOutlivesNothing
<1> QED BY <1>1, <1>2, <1>3, <1>4, <1>5, <1>6, <1>7, <1>8, <1>9, <1>10, <1>11, <1>12,
           <1>13, <1>14, <1>15 DEF IInv

\* A parent's words are there.
LEMMA IsCorrectedKeeps ==
  ASSUME IInv, NEW r \in Requests, NEW row, IsCorrected(r, row)
  PROVE  IInv'
<1>1. Reads' /\ GivenOut'
  BY EndedReads DEF IsCorrected, Moved, counts
<1> USE DEF IInv, IsCorrected, At, Moved, Idled, What, Fam, NoteWritten, counts
<1>2. Types' /\ Requested' /\ Ops' /\ GivenDevices'
  BY SMTT(20), HouseholdAssumption DEF SameOthers, Same, Types, Ops, Reads, DeviceRecord, CodeRecord,
                             NoteRecord, SameCall, Ats, Rows, ReadsOf, Requested, GivenDevices
<1>3. GivenCodes' /\ OneFamilyPerDevice' /\ OneFamilyPerCode'
  BY DEF SameOthers, Same, GivenCodes, Types, SameCall, OneFamilyPerDevice, DeviceOf,
         OneFamilyPerCode, CodeOf
<1>4. Counted' /\ Unknown'
  BY CountedKept, HouseholdAssumption, UnknownKept, Strangers DEF Types, SameCall, Busy
<1>5. GivenMedia'
  BY DEF SameOthers, Same, GivenMedia, GivenOut, GivenTo
<1>6. OneFamilyPerRecording'
  BY SMTT(20) DEF SameOthers, Same, OneFamilyPerRecording, Types, SameCall, RecordingOf
<1>7. LateIsDisturbing'
  BY DEF SameOthers, Same, LateIsDisturbing, Types, SameCall, Busy, Late
<1>8. TakenAway' /\ Overtaken'
  BY DEF SameOthers, Same, TakenAway, Types, SameCall, OfFamily, Overtaken
<1>9. RevokedStaysOut' /\ CorrectedAreThere' /\ CorrectionStands'
  BY DEF SameOthers, Same, RevokedStaysOut, Types, SameCall, CorrectedAreThere, CorrectionStands
<1>10. CorrectsInTime'
  BY DEF SameOthers, Same, CorrectsInTime, Ops, Reads, ReadsOf
<1>11. OpenIsUnused' /\ GoesAlone' /\ CameAlone' /\ BoxDoor'
  BY DEF SameOthers, Same, OpenIsUnused, Types, SameCall, GoesAlone, CameAlone, BoxDoor, Box
<1>12. NothingOutlivesTheFamily' /\ KeptIsAnswered' /\ KeepsAlone'
  BY <1>2, CorrectedKeeps
<1> QED BY <1>1, <1>2, <1>3, <1>4, <1>5, <1>6, <1>7, <1>8, <1>9, <1>10, <1>11, <1>12 DEF IInv

\* A device nobody had.
LEMMA FoundersInKeeps ==
  ASSUME IInv, NEW r \in Requests, NEW d \in Devices, FoundersIn(r, d)
  PROVE  IInv'
<1>1. Reads' /\ GivenOut'
  BY EndedReads DEF FoundersIn, Paired, Moved, counts
<1> USE DEF IInv, FoundersIn, At, Paired, Moved, Idled, Fam, counts
<1>2. Types' /\ Requested' /\ Ops' /\ GivenCodes'
  BY HouseholdAssumption DEF SameOthers, Same, Types, Ops, Reads, DeviceRecord, CodeRecord,
                             NoteRecord, SameCall, Ats, Rows, ReadsOf, What, Requested, GivenCodes
<1>3. GivenMedia'
  BY DEF SameOthers, Same, GivenMedia, Types, SameCall
<1>4. OneFamilyPerCode'
  BY DEF SameOthers, Same, OneFamilyPerCode, Types, SameCall, CodeOf, What
<1>5. OneFamilyPerRecording'
  BY DEF SameOthers, Same, OneFamilyPerRecording, Types, SameCall, RecordingOf, What
<1>6. Counted' /\ Unknown'
  BY CountedKept, HouseholdAssumption, UnknownKept, Strangers DEF Types, SameCall, Busy
<1>7. GivenDevices'
  BY HouseholdAssumption DEF SameOthers, Same, GivenDevices, GivenOut, GivenTo, What
<1>8. OneFamilyPerDevice'
  BY DEF SameOthers, Same, OneFamilyPerDevice, GivenOut, DeviceOf, GivenTo, What
<1>9. LateIsDisturbing' /\ TakenAway' /\ NothingOutlivesTheFamily' /\ Overtaken'
  BY DEF SameOthers, Same, LateIsDisturbing, Types, SameCall, Busy, Late, TakenAway, OfFamily,
         NothingOutlivesTheFamily, Overtaken
<1>10. CorrectedAreThere'
  BY DEF SameOthers, Same, CorrectedAreThere, Types, SameCall
<1>11. KeptIsAnswered'
  BY DEF SameOthers, Same, KeptIsAnswered, Answered, What
<1>12. KeepsAlone'
  BY DEF SameOthers, Same, KeepsAlone, Types, SameCall, What, KeepingOf
<1>13. RevokedStaysOut'
  BY DEF SameOthers, Same, RevokedStaysOut, Overtaken, GivenOut, GivenDevices, Types, Ops, GivenTo,
         What
<1>14. CorrectsInTime' /\ CorrectionStands' /\ BoxDoor'
  BY DEF SameOthers, Same, CorrectsInTime, Types, SameCall, What, CorrectionStands, BoxDoor, Box
<1>15. OpenIsUnused' /\ GoesAlone'
  BY DEF SameOthers, Same, OpenIsUnused, GivenDevices, What, GoesAlone
<1>16. CameAlone'
  BY HouseholdAssumption DEF SameOthers, Same, CameAlone
<1> QED BY <1>1, <1>2, <1>3, <1>4, <1>5, <1>6, <1>7, <1>8, <1>9, <1>10, <1>11, <1>12,
           <1>13, <1>14, <1>15, <1>16 DEF IInv

\* A device nobody had, for a code that is used up.
LEMMA JoinedByKeeps ==
  ASSUME IInv, NEW r \in Requests, NEW d \in Devices, JoinedBy(r, d)
  PROVE  IInv'
<1>1. Reads' /\ GivenOut'
  BY EndedReads DEF JoinedBy, Paired, Moved, counts
<1> USE DEF IInv, JoinedBy, At, What, Paired, Moved, Idled, Fam, counts
<1>2. Types' /\ Requested'
  BY HouseholdAssumption DEF SameOthers, Same, Types, Ops, Reads, DeviceRecord, CodeRecord,
                             NoteRecord, SameCall, Ats, Rows, ReadsOf, Requested
<1>3. Ops' /\ GivenCodes'
  BY DEF SameOthers, Same, Ops, Types, SameCall, GivenCodes
<1>4. OneFamilyPerCode'
  BY DEF SameOthers, Same, OneFamilyPerCode, Types, SameCall, CodeOf
<1>5. OneFamilyPerRecording'
  BY DEF SameOthers, Same, OneFamilyPerRecording, Types, SameCall, RecordingOf
<1>6. LateIsDisturbing'
  BY DEF SameOthers, Same, LateIsDisturbing, Types, SameCall, Busy, Late
<1>7. Counted' /\ Unknown'
  BY CountedKept, HouseholdAssumption, UnknownKept, Strangers DEF Types, SameCall, Busy
<1>8. GivenDevices'
  BY HouseholdAssumption DEF SameOthers, Same, GivenDevices, GivenOut, GivenTo
<1>9. GivenMedia' /\ KeptIsAnswered'
  BY NothingKept DEF GivenMedia
<1>10. OneFamilyPerDevice'
  BY DEF SameOthers, Same, OneFamilyPerDevice, GivenOut, DeviceOf, GivenTo
<1>11. TakenAway' /\ NothingOutlivesTheFamily' /\ Overtaken' /\ CorrectedAreThere' /\ KeepsAlone'
       /\ CorrectsInTime' /\ CorrectionStands'
  <2>1. TakenAway' /\ NothingOutlivesTheFamily'
    BY DEF SameOthers, Same, TakenAway, Types, OfFamily, NothingOutlivesTheFamily
  <2>2. Overtaken' /\ CorrectedAreThere' /\ CorrectsInTime' /\ CorrectionStands'
    BY DEF SameOthers, Same, Types, Overtaken, CorrectedAreThere, CorrectsInTime, CorrectionStands
  <2>3. KeepsAlone'
    BY DEF SameOthers, Same, KeepsAlone, KeepingOf
  <2> QED BY <2>1, <2>2, <2>3
<1>12. RevokedStaysOut'
  BY DEF SameOthers, Same, RevokedStaysOut, Overtaken, GivenOut, GivenDevices, Types, Ops, GivenTo
<1>13. OpenIsUnused' /\ GoesAlone' /\ BoxDoor'
  BY DEF SameOthers, Same, OpenIsUnused, Types, SameCall, GoesAlone, BoxDoor, Box
<1>14. CameAlone'
  BY DEF SameOthers, Same, CameAlone, GoesAlone
<1> QED BY <1>1, <1>2, <1>3, <1>4, <1>5, <1>6, <1>7, <1>8, <1>9, <1>10, <1>11, <1>12,
           <1>13, <1>14 DEF IInv

\* A code nobody had.
LEMMA OpenedKeeps ==
  ASSUME IInv, NEW r \in Requests, NEW c \in Codes, Opened(r, c)
  PROVE  IInv'
<1>1. Types'
  BY OpenedTypes
<1>2. Reads' /\ GivenOut'
  BY EndedReads DEF Opened, Moved, counts
<1> USE DEF IInv, Opened, At, Moved, Idled, Fam, counts, histories
<1>3. Requested' /\ Ops' /\ GivenDevices' /\ GivenMedia'
  <2>1. Requested'
    BY DEF SameOthers, Same, Requested, Types, Ats, Rows, SameCall, Ops, GivenDevices, GivenMedia
  <2>2. Ops'
    BY DEF SameOthers, Same, Requested, Types, Ats, Rows, SameCall, Ops, GivenDevices, GivenMedia
  <2>3. GivenDevices'
    BY DEF SameOthers, Same, Requested, Types, Ats, Rows, SameCall, Ops, GivenDevices, GivenMedia
  <2>4. GivenMedia'
    BY DEF SameOthers, Same, Requested, Types, Ats, Rows, SameCall, Ops, GivenDevices, GivenMedia
  <2> QED BY <2>1, <2>2, <2>3, <2>4
<1>4. OneFamilyPerDevice' /\ OneFamilyPerRecording'
  BY NoNewDevice, NoNewRecording
<1>5. LateIsDisturbing'
  BY DEF SameOthers, Same, LateIsDisturbing, Types, SameCall, Busy, Late
<1>6. Counted' /\ Unknown'
  BY CountedKept, HouseholdAssumption, UnknownKept, Strangers DEF Types, SameCall, Busy
<1>7. GivenCodes'
  BY HouseholdAssumption DEF SameOthers, Same, GivenCodes, GivenOut, GivenTo, What
<1>8. OneFamilyPerCode'
  BY DEF SameOthers, Same, OneFamilyPerCode, GivenOut, CodeOf, GivenTo, What
<1>9. TakenAway' /\ NothingOutlivesTheFamily' /\ Overtaken' /\ RevokedStaysOut'
      /\ CorrectedAreThere' /\ KeepsAlone' /\ CorrectsInTime'
  BY DEF SameOthers, Same, TakenAway, Types, SameCall, OfFamily, NothingOutlivesTheFamily,
         Overtaken, RevokedStaysOut, CorrectedAreThere, KeepsAlone, What, KeepingOf, CorrectsInTime
<1>10. KeptIsAnswered'
  BY DEF SameOthers, Same, KeptIsAnswered, Answered, What
<1>11. CorrectionStands' /\ GoesAlone' /\ CameAlone' /\ BoxDoor'
  BY SMTT(20) DEF SameOthers, Same, CorrectionStands, Types, SameCall, GoesAlone, What, CameAlone, BoxDoor,
         Box
<1>12. OpenIsUnused'
  BY HouseholdAssumption DEF SameOthers, Same, OpenIsUnused, GivenDevices, GivenOut, What, GivenTo
<1> QED BY <1>1, <1>2, <1>3, <1>4, <1>5, <1>6, <1>7, <1>8, <1>9, <1>10, <1>11, <1>12 DEF IInv

\* Who is cut off holds nothing, and what he left half done is known of.
LEMMA StopKeeps ==
  ASSUME IInv, NEW some \in SUBSET Requests, Stop(some)
  PROVE  IInv'
<1> USE DEF IInv, Same, What, At, Fam, tables
<1>1. Types' /\ Requested'
  BY StopMeans, HouseholdAssumption DEF Types, Ops, Reads, DeviceRecord, CodeRecord, NoteRecord,
                                        SameOthers, SameCall, ReadsOf, Requested
<1>2. Counted'
  <2>1. \A q \in Claims' : q \in Claims /\ request'[q].since = request[q].since
    BY StopMeans DEF SameOthers, SameCall, Claims, Busy
  <2>2. attempts' = attempts /\ begun' = begun /\ begun \in Nat
    BY StopMeans DEF Stop, Types
  <2> QED BY <2>1, <2>2, FewerClaims
<1>3. Ops'
  BY StopMeans DEF Ops, SameOthers, SameCall
<1>4. GivenDevices' /\ GivenCodes' /\ GivenOut'
  BY StopMeans DEF GivenDevices, Types, SameOthers, SameCall, GivenCodes, GivenOut, GivenTo
<1>5. Reads'
  BY StopMeans, HouseholdAssumption DEF Reads, Asked, ReadsOf
<1>6. GivenMedia'
  BY StopMeans DEF GivenMedia
<1>7. OneFamilyPerDevice' /\ OneFamilyPerCode'
  BY StopMeans DEF OneFamilyPerDevice, Types, SameOthers, SameCall, DeviceOf, OneFamilyPerCode,
                   CodeOf
<1>8. OneFamilyPerRecording' /\ LateIsDisturbing'
  BY StopMeans DEF OneFamilyPerRecording, Types, SameOthers, SameCall, RecordingOf,
                   LateIsDisturbing, Busy, Late
<1>9. TakenAway' /\ NothingOutlivesTheFamily' /\ Overtaken'
  BY StopMeans DEF TakenAway, SameOthers, SameCall, OfFamily, NothingOutlivesTheFamily, Overtaken
<1>10. RevokedStaysOut' /\ CorrectedAreThere' /\ KeptIsAnswered' /\ KeepsAlone' /\ CorrectsInTime'
       /\ CorrectionStands' /\ OpenIsUnused'
  <2>1. RevokedStaysOut'
    BY StopMeans DEF RevokedStaysOut, Types, SameOthers, SameCall
  <2>2. CorrectedAreThere'
    BY StopMeans DEF Types, SameCall, CorrectedAreThere
  <2>3. KeptIsAnswered'
    BY StopMeans DEF KeptIsAnswered, Same, Answered, What
  <2>4. KeepsAlone'
    BY StopMeans DEF KeepsAlone, Types, SameCall, KeepingOf
  <2>5. CorrectsInTime'
    BY StopMeans DEF CorrectsInTime, Types, SameCall
  <2>6. CorrectionStands'
    BY StopMeans DEF CorrectionStands, Types, SameCall
  <2>7. OpenIsUnused'
    BY StopMeans DEF OpenIsUnused, Types, SameCall
  <2> QED BY <2>1, <2>2, <2>3, <2>4, <2>5, <2>6, <2>7
<1>11. Unknown'
  BY StopMeans, HouseholdAssumption DEF Unknown, Reads, ReadsOf
<1>12. GoesAlone' /\ CameAlone' /\ BoxDoor'
  BY StopMeans DEF GoesAlone, Types, SameOthers, SameCall, CameAlone, BoxDoor, Box
<1> QED BY <1>1, <1>2, <1>3, <1>4, <1>5, <1>6, <1>7, <1>8, <1>9, <1>10, <1>11, <1>12 DEF IInv

\* Only the time changes.
LEMMA TimePassesKeeps ==
  ASSUME IInv, TimePasses
  PROVE  IInv'
<1>1. Types'
  BY TimePassesTypes
<1> USE DEF IInv, TimePasses, tables, histories
<1>2. Reads'
  BY HouseholdAssumption DEF Reads, Types, CodeRecord, ReadsOf, Fam, What, At
<1>3. Requested' /\ Counted' /\ Ops' /\ GivenDevices' /\ GivenCodes' /\ GivenOut'
      /\ OneFamilyPerDevice'
  BY CountedRests DEF Requested, Types, Same, SameOthers, SameCall, Ops, At, GivenDevices, GivenCodes, GivenOut,
                                          GivenTo, Fam, What, OneFamilyPerDevice, DeviceOf
<1>4. GivenMedia'
  BY DEF GivenMedia
<1>5. OneFamilyPerCode' /\ OneFamilyPerRecording' /\ LateIsDisturbing' /\ TakenAway'
      /\ NothingOutlivesTheFamily' /\ Overtaken' /\ RevokedStaysOut'
  BY DEF OneFamilyPerCode, Types, Same, SameOthers, SameCall, CodeOf, Fam, At, What,
         OneFamilyPerRecording, RecordingOf, LateIsDisturbing, Busy, Late, TakenAway, OfFamily,
         NothingOutlivesTheFamily, Overtaken, RevokedStaysOut
<1>6. Unknown' /\ CorrectedAreThere' /\ KeptIsAnswered' /\ KeepsAlone'
  <2>1. Unknown' /\ CorrectedAreThere'
    BY DEF Unknown, CorrectedAreThere, At, Fam
  <2>2. KeptIsAnswered' /\ KeepsAlone'
    BY DEF KeptIsAnswered, KeepsAlone, Answered, KeepingOf, At, What, Fam
  <2> QED BY <2>1, <2>2
<1>7. CorrectsInTime' /\ CorrectionStands' /\ OpenIsUnused'
  BY DEF CorrectsInTime, Types, Same, SameOthers, SameCall, At, What, Fam, CorrectionStands,
         OpenIsUnused
<1>8. GoesAlone' /\ CameAlone' /\ BoxDoor'
  BY DEF GoesAlone, Types, Same, SameOthers, SameCall, What, CameAlone, BoxDoor, Box, At
<1> QED BY <1>1, <1>2, <1>3, <1>4, <1>5, <1>6, <1>7, <1>8 DEF IInv

\* Nothing changes.
LEMMA StutterKeeps ==
  ASSUME IInv, UNCHANGED houseVars
  PROVE  IInv'
<1>1. Reads' /\ GivenOut' /\ Unknown' /\ LateIsDisturbing'
  BY DEF IInv, Reads, ReadsOf, GivenOut, GivenTo, Unknown, LateIsDisturbing, Busy, At,
     Fam, What, houseVars, counts, tables, histories
<1> USE DEF IInv, houseVars, tables, counts, histories
<1>2. Types' /\ Requested' /\ Counted' /\ Ops' /\ GivenDevices' /\ GivenCodes'
      /\ OneFamilyPerDevice'
  BY CountedRests DEF Types, Same, SameOthers, SameCall, Requested, Ops, At, GivenDevices, GivenCodes,
                                          OneFamilyPerDevice, DeviceOf, Fam, What
<1>3. GivenMedia'
  BY DEF GivenMedia
<1>4. OneFamilyPerCode' /\ OneFamilyPerRecording' /\ TakenAway' /\ NothingOutlivesTheFamily'
      /\ Overtaken' /\ RevokedStaysOut' /\ CorrectedAreThere'
  BY DEF OneFamilyPerCode, Types, Same, SameOthers, SameCall, CodeOf, Fam, At, What,
         OneFamilyPerRecording, RecordingOf, TakenAway, OfFamily, NothingOutlivesTheFamily,
         Overtaken, RevokedStaysOut, CorrectedAreThere
<1>5. KeptIsAnswered' /\ KeepsAlone' /\ CorrectsInTime' /\ CorrectionStands'
  BY DEF KeptIsAnswered, Types, Same, SameOthers, SameCall, Answered, At, What, KeepsAlone,
         KeepingOf, Fam, CorrectsInTime, CorrectionStands
<1>6. OpenIsUnused' /\ GoesAlone' /\ CameAlone'
  BY DEF OpenIsUnused, Types, Same, SameOthers, SameCall, At, What, GoesAlone, CameAlone
<1>7. BoxDoor'
  BY DEF BoxDoor, Box, At
<1> QED BY <1>1, <1>2, <1>3, <1>4, <1>5, <1>6, <1>7 DEF IInv

LEMMA SeenKeeps ==
  ASSUME IInv, NEW r \in Requests, Seen(r)
  PROVE  IInv'
BY SeenMeans, IsSeenKeeps, EndedKeeps DEF IInv, Sound

LEMMA RevokeReadsKeeps ==
  ASSUME IInv, NEW r \in Requests, RevokeReads(r)
  PROVE  IInv'
BY RevokeReadsMeans, RevokeHoldsKeeps, EndedKeeps DEF IInv, Sound

LEMMA RevokeSavesKeeps ==
  ASSUME IInv, NEW r \in Requests, RevokeSaves(r)
  PROVE  IInv'
BY RevokeSavesMeans, IsRevokedKeeps, EndedKeeps DEF IInv, Sound

LEMMA FoundersDeviceKeeps ==
  ASSUME IInv, NEW r \in Requests, FoundersDevice(r)
  PROVE  IInv'
BY FoundersDeviceMeans, FoundersInKeeps, EndedKeeps DEF IInv, Sound

LEMMA OpenCodeKeeps ==
  ASSUME IInv, NEW r \in Requests, OpenCode(r)
  PROVE  IInv'
BY OpenCodeMeans, OpenedKeeps, EndedKeeps DEF IInv, Sound

LEMMA ConsumeKeeps ==
  ASSUME IInv, NEW r \in Requests, Consume(r)
  PROVE  IInv'
BY ConsumeMeans, ConsumedKeeps, EndedKeeps DEF IInv, Sound

LEMMA JoinKeeps ==
  ASSUME IInv, NEW r \in Requests, Join(r)
  PROVE  IInv'
BY JoinMeans, JoinedByKeeps DEF IInv, Sound

LEMMA KeepReadsKeeps ==
  ASSUME IInv, NEW r \in Requests, KeepReads(r)
  PROVE  IInv'
BY KeepReadsMeans, KeepHoldsKeeps, EndedKeeps DEF IInv, Sound

LEMMA KeepSavesKeeps ==
  ASSUME IInv, NEW r \in Requests, KeepSaves(r)
  PROVE  IInv'
BY KeepSavesMeans, IsKeptKeeps, EndedKeeps DEF IInv, Sound

LEMMA CorrectReadsKeeps ==
  ASSUME IInv, NEW r \in Requests, CorrectReads(r)
  PROVE  IInv'
BY CorrectReadsMeans, CorrectHoldsKeeps, EndedKeeps DEF IInv, Sound

LEMMA CorrectSavesKeeps ==
  ASSUME IInv, NEW r \in Requests, CorrectSaves(r)
  PROVE  IInv'
BY CorrectSavesMeans, IsCorrectedKeeps, EndedKeeps DEF IInv, Sound

LEMMA EraseCatalogueKeeps ==
  ASSUME IInv, NEW r \in Requests, EraseCatalogue(r)
  PROVE  IInv'
BY EraseCatalogueMeans, UnlistedKeeps DEF IInv, Sound

LEMMA EraseRowsKeeps ==
  ASSUME IInv, NEW r \in Requests, EraseRows(r)
  PROVE  IInv'
BY EraseRowsMeans, ErasedKeeps DEF IInv, Sound

---------------------------------------------------------------------------
(* The beginning, and every step.                                          *)

LEMMA InitIsSound == HouseInit => IInv
<1> SUFFICES ASSUME HouseInit PROVE IInv
    OBVIOUS
<1>1. /\ request \in [Requests -> Request]
      /\ \A r \in Requests : /\ request[r].at = "idle" /\ request[r].op = None /\ request[r].who = None
                             /\ request[r].fam = None /\ request[r].row = None
                             /\ request[r].what = None /\ request[r].after = FALSE
      /\ codes \in [Codes -> {None}] /\ notes \in [Media -> {None}] /\ cameBy \in [Devices -> {None}]
      /\ ledger = {} /\ attempts = {} /\ now = 0 /\ begun = 0 /\ faults = 0
      /\ out = {} /\ together = {} /\ corrected = {} /\ disturbed = {}
  BY IdleIs DEF HouseInit
<1>2. /\ None \notin Families /\ None \notin Codes /\ "claim" # None
      /\ {MaxAttempts, CodeTtl, MaxNow, MaxRequests, MaxFaults} \subseteq Nat
  BY HouseholdAssumption DEF HouseholdAssumption
<1>3. Types /\ GivenDevices /\ (\A m \in Media : media[m] # None => m \in given)
      /\ (\A f, g \in families : f = g)
      /\ (\A d \in Devices : devices[d] # None => devices[d].family \in families)
      /\ (\A m \in Media : media[m] # None => media[m] \in families)
      /\ (\A file \in files : file[1] \in families) /\ trail \subseteq families
  <2>1. CASE families = {} /\ given = {} /\ trail = {} /\ files = {}
             /\ devices = [d \in Devices |-> None] /\ media = [m \in Media |-> None]
    BY <1>1, <1>2, <2>1 DEF Types, GivenDevices
  <2>2. ASSUME NEW f \in Families, NEW d \in Devices, NEW e \in Devices, NEW m \in Media,
               families = {f}, given = {f, d, e, m}, trail = {f}, files = {<<f, ContentOf(m)>>},
               devices = [x \in Devices |->
                            IF x \in {d, e} THEN [family |-> f, revoked |-> FALSE] ELSE None],
               media = [x \in Media |-> IF x = m THEN f ELSE None]
        PROVE  /\ Types /\ GivenDevices /\ (\A x \in Media : media[x] # None => x \in given)
               /\ (\A x, y \in families : x = y)
               /\ (\A x \in Devices : devices[x] # None => devices[x].family \in families)
               /\ (\A x \in Media : media[x] # None => media[x] \in families)
               /\ (\A file \in files : file[1] \in families) /\ trail \subseteq families
    <3>1. devices \in [Devices -> {None} \cup DeviceRecord]
      BY <2>2 DEF DeviceRecord
    <3>2. \A x \in Devices : devices[x] # None => x \in given /\ devices[x].family = f
      BY <2>2
    <3>3. /\ media \in [Media -> {None} \cup Families]
          /\ \A x \in Media : media[x] # None => x = m /\ media[x] = f
      BY <2>2
    <3>4. files \subseteq Families \X {ContentOf(x) : x \in Media} /\ \A file \in files : file[1] = f
      BY <2>2
    <3>5. families \subseteq Families /\ trail \subseteq Families
      BY <2>2
    <3>6. Types
      BY <1>1, <1>2, <3>1, <3>3, <3>4, <3>5 DEF Types
    <3>7. GivenDevices
      BY <1>1, <2>2, <3>2 DEF GivenDevices
    <3> QED BY <2>2, <3>2, <3>3, <3>4, <3>6, <3>7
  <2> QED BY <2>1, <2>2 DEF HouseInit
<1>4. /\ Requested /\ Ops /\ Reads /\ GivenOut
      /\ LateIsDisturbing /\ TakenAway /\ Overtaken /\ Unknown
  <2>1. Ops
    BY <1>1 DEF Ops, At
  <2>2. Reads
    BY <1>1, HouseholdAssumption DEF HouseholdAssumption, Reads, ReadsOf, At, Asked
  <2>3. GivenOut
    BY <1>1 DEF GivenOut, GivenTo, At, Fam
  <2>4. Requested /\ LateIsDisturbing /\ TakenAway /\ Overtaken /\ Unknown
    BY <1>1 DEF Requested, LateIsDisturbing, TakenAway, Overtaken, Unknown, At, Busy
  <2> QED BY <2>1, <2>2, <2>3, <2>4
<1>5. Counted
  <2>1. Claims = {} /\ \A t : ClaimsWithin(t) = {} /\ Within(t) = {}
    BY <1>1 DEF Claims, ClaimsWithin, Busy, Within
  <2>2. IsFiniteSet({}) /\ Cardinality({}) = 0
    BY FS_EmptySet
  <2>3. Cardinality(Requests) \in Nat /\ MaxAttempts \in Nat /\ MaxAttempts > 0
    BY ClaimsAreFinite, HouseholdAssumption DEF HouseholdAssumption
  <2>4. Numbered
    BY <1>1, <2>1, <2>2 DEF Numbered
  <2>5. FewAtOnce
    BY <2>1, <2>2, <2>3 DEF FewAtOnce
  <2> QED BY <2>4, <2>5 DEF Counted
<1>6. GivenCodes /\ GivenMedia
  BY <1>1, <1>3 DEF GivenCodes, GivenMedia
<1>7. OneFamilyPerDevice /\ OneFamilyPerCode /\ OneFamilyPerRecording
  BY <1>1, <1>3 DEF OneFamilyPerDevice, DeviceOf, OneFamilyPerCode, CodeOf, OneFamilyPerRecording,
     RecordingOf, At
<1>8. NothingOutlivesTheFamily
  <2> SUFFICES ASSUME NEW f \in Families \ families
               PROVE  /\ \A table \in {devices, codes, notes} :
                           \A x \in DOMAIN table : table[x] = None \/ table[x].family # f
                      /\ OfFamily(f) = {} /\ \A m \in Media : media[m] # f
                      /\ f \in trail => f \in halted \/ \E r \in Requests : At(r, "trail") /\ Fam(r) = f
    BY <1>1 DEF NothingOutlivesTheFamily
  <2>1. DOMAIN devices = Devices
    BY <1>3 DEF Types
  <2> QED BY <1>1, <1>2, <1>3, <2>1 DEF OfFamily
<1>9. /\ RevokedStaysOut /\ CorrectedAreThere /\ KeptIsAnswered /\ KeepsAlone
      /\ CorrectsInTime /\ CorrectionStands
  BY <1>1 DEF RevokedStaysOut, CorrectedAreThere, KeptIsAnswered, KeepsAlone, CorrectsInTime,
     CorrectionStands, At
<1>10. OpenIsUnused /\ GoesAlone /\ CameAlone /\ BoxDoor
  BY <1>1, <1>2, <1>3 DEF OpenIsUnused, GoesAlone, CameAlone, BoxDoor, At
<1> QED BY <1>3, <1>4, <1>5, <1>6, <1>7, <1>8, <1>9, <1>10 DEF IInv

LEMMA EveryStepKeeps ==
  ASSUME IInv, [HouseNext]_houseVars
  PROVE  IInv'
<1>1. ASSUME NEW r \in Requests, Access(r) PROVE IInv'
  BY <1>1, ArrivesKeeps, SeenKeeps, RevokeReadsKeeps, RevokeSavesKeeps, OpenCodeKeeps,
     CountFamiliesKeeps, FoundFamilyKeeps, FoundersDeviceKeeps DEF Access
<1>2. ASSUME NEW r \in Requests, Claiming(r) PROVE IInv'
  BY <1>2, ClaimBeginsKeeps, FindCodeKeeps, ConsumeKeeps, JoinKeeps, JoinFailsKeeps,
     RecordFailureKeeps DEF Claiming
<1>3. ASSUME NEW r \in Requests, Keeping(r) PROVE IInv'
  BY <1>3, AddChildReadsKeeps, AddChildSavesKeeps, ExportReadsKeeps, ExportPublishesKeeps,
     UploadBytesKeeps, UploadRecordsKeeps,
     KeepReadsKeeps, KeepSavesKeeps, RememberKeeps, CorrectReadsKeeps, CorrectSavesKeeps DEF Keeping
<1>4. ASSUME NEW r \in Requests, Erasing(r) PROVE IInv'
  BY <1>4, EraseBeginsKeeps, EraseFilesKeeps, EraseFolderKeeps, EraseCatalogueKeeps, EraseRowsKeeps,
     EraseTrailKeeps DEF Erasing
<1>5. ASSUME NEW r \in Requests, Raises(r) PROVE IInv'
  BY <1>5, StopKeeps DEF Raises
<1>6. ASSUME Restart PROVE IInv'
  BY <1>6, StopKeeps DEF Restart
<1>7. ASSUME TimePasses PROVE IInv'
  BY <1>7, TimePassesKeeps
<1>8. ASSUME UNCHANGED houseVars PROVE IInv'
  BY <1>8, StutterKeeps
<1> QED BY <1>1, <1>2, <1>3, <1>4, <1>5, <1>6, <1>7, <1>8 DEF HouseNext

---------------------------------------------------------------------------
(* What a reader should know of.                                           *)

LEMMA AtMostOneOf ==
  ASSUME NEW S, \A x, y \in S : x = y
  PROVE  Cardinality(S) <= 1
<1>1. CASE S = {}
  BY <1>1, FS_EmptySet
<1>2. ASSUME NEW x \in S PROVE Cardinality(S) <= 1
  <2>1. S = {x}
    OBVIOUS
  <2> QED BY <2>1, FS_Singleton
<1> QED BY <1>1, <1>2

\* Failures never outnumber the requests there were.
LEMMA HouseTypesHere == IInv => HouseTypeOK
<1> SUFFICES ASSUME IInv PROVE HouseTypeOK
    OBVIOUS
<1>1. attempts \subseteq [id : 1 .. MaxRequests, at : 0 .. MaxNow]
  <2>1. /\ Cardinality(attempts) \in Nat /\ begun \in 0 .. MaxRequests /\ MaxRequests \in Nat
        /\ Cardinality(Claims) \in Nat /\ Cardinality(attempts) + Cardinality(Claims) <= begun
    BY HouseholdAssumption, ClaimsAreFinite, WithinIsFinite
       DEF HouseholdAssumption, IInv, Types, Counted, Numbered
  <2> SUFFICES ASSUME NEW row \in attempts PROVE row \in [id : 1 .. MaxRequests, at : 0 .. MaxNow]
      OBVIOUS
  <2>2. row \in [id : Nat, at : 0 .. MaxNow] /\ row.id \in 1 .. Cardinality(attempts)
    BY DEF IInv, Types, Counted, Numbered
  <2>3. row.id \in 1 .. MaxRequests
    BY <2>1, <2>2
  <2> QED BY <2>2, <2>3
<1> QED BY <1>1 DEF IInv, Types, HouseTypeOK, DeviceRecord, CodeRecord, NoteRecord

\* Who may still fail is counted as if he had.
LEMMA FailuresAreFewHere == IInv => FailuresAreFew
<1> SUFFICES ASSUME IInv, NEW t \in 0 .. MaxNow
             PROVE  Cardinality(Within(t)) <= MaxAttempts + Cardinality(Requests) - 1
    BY DEF FailuresAreFew
<1>1. /\ Cardinality(Within(t)) \in Nat /\ Cardinality(ClaimsWithin(t)) \in Nat
      /\ Cardinality(Requests) \in Nat /\ MaxAttempts \in Nat
      /\ Cardinality(Within(t)) + Cardinality(ClaimsWithin(t)) <= MaxAttempts + Cardinality(Requests) - 1
  BY ClaimsAreFinite, WithinIsFinite, HouseholdAssumption
     DEF HouseholdAssumption, IInv, Counted, Numbered, FewAtOnce
<1> QED BY <1>1

LEMMA OnePerDoorHere == IInv => OneDevicePerCode /\ OneFamilyPerBox
<1> SUFFICES ASSUME IInv PROVE OneDevicePerCode /\ OneFamilyPerBox
    OBVIOUS
<1>1. ASSUME NEW c \in Codes \ together PROVE Cardinality({d \in Devices : cameBy[d] = c}) <= 1
  <2>1. \A x, y \in {d \in Devices : cameBy[d] = c} : x = y
    BY DEF IInv, CameAlone
  <2> QED BY <2>1, AtMostOneOf
<1>2. CASE Box \notin together
  <2>1. \A x, y \in families \ disturbed : x = y
    BY <1>2 DEF IInv, BoxDoor
  <2> QED BY <1>1, <2>1, AtMostOneOf DEF OneDevicePerCode, OneFamilyPerBox
<1> QED BY <1>1, <1>2 DEF OneDevicePerCode, OneFamilyPerBox

\* access.py, voice.py, privacy.py and the catalogue: whatever requests of the threadpool do
\* a statement at a time, raise or are cut off, the tables and what the requests have read
\* stay in the relations named above.
THEOREM HouseInvariant == HouseSpec => []IInv
<1>1. IInv /\ [HouseNext]_houseVars => IInv'
  BY EveryStepKeeps
<1> QED BY InitIsSound, <1>1, PTL DEF HouseSpec

\* The tables hold what their columns say, and no more failures are recorded than requests came.
THEOREM HouseTypes == HouseSpec => []HouseTypeOK
BY HouseInvariant, HouseTypesHere, PTL

\* RevokeDeviceUseCase and AuthenticateDeviceUseCase: a phone that was cut off stays out, unless
\* an authentication had read its row before; for any number of phones and requests.
THEOREM RevokedPhonesStayOut == HouseSpec => []RevokedStaysOut
<1>1. IInv => RevokedStaysOut
  BY DEF IInv
<1> QED BY HouseInvariant, <1>1, PTL

\* ClaimPairingUseCase and the first-run box: a code lets one device in and a box takes one
\* family, unless two were in the door at once or a late request wrote an erased family back;
\* and within any window failures are at most the limit and who was under way when it bit.
THEOREM DoorsClose == HouseSpec => []DoorsCloseBehind
<1>1. IInv => DoorsCloseBehind
  BY OnePerDoorHere, FailuresAreFewHere DEF DoorsCloseBehind
<1> QED BY HouseInvariant, <1>1, PTL

\* KeepVoiceNoteUseCase and CorrectTranscriptUseCase: what a parent wrote for a recording is not
\* written over by a retry of the keep.
THEOREM ParentsWordsStand == HouseSpec => []CorrectionStands
<1>1. IInv => CorrectionStands
  BY DEF IInv
<1> QED BY HouseInvariant, <1>1, PTL

\* DeleteFamilyDataUseCase: once the row of a family is gone nothing else of it is there, wherever
\* the erasure stopped, unless an upload, a child being added or an export overlapped it.
THEOREM NothingIsLeftBehind == HouseSpec => []NothingOutlivesTheFamily
<1>1. IInv => NothingOutlivesTheFamily
  BY DEF IInv
<1> QED BY HouseInvariant, <1>1, PTL
=============================================================================
