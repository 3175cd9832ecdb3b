------------------------------ MODULE Measures -------------------------------
(***************************************************************************)
(* The continuity of the bar numbers (tabextract/verify.py).               *)
(*                                                                         *)
(* Every system of a score is headed by the number of its first bar.  The  *)
(* numbers that could be read are compared in order: the usual increment   *)
(* is measured from the sequence itself, readings from which the sequence  *)
(* recovers are skipped as misread, and the rest of what does not fit is   *)
(* reported as a gap or as a step backwards.                               *)
(*                                                                         *)
(* A song is given by its true numbers: Step bars per system, with `lost`  *)
(* bars missing after the system `hole`.  What is read of each system is   *)
(* its number, nothing, or at one system something else.                   *)
(***************************************************************************)
EXTENDS Integers, Sequences, FiniteSets

CONSTANTS
    MaxSystems,  \* bound: systems of a song
    Steps,       \* bars per system
    Losses,      \* how many bars may be missing
    Misreads,    \* what a number may be mistaken for
    Unit         \* fractions are counted in 1/Unit

ASSUME MeasuresAssumption ==
    /\ MaxSystems \in Nat \ {0}
    /\ Steps \subseteq Nat
    /\ Losses \subseteq Nat
    /\ Misreads \subseteq Nat
    /\ Unit \in Nat \ {0}
    /\ \A d \in 1 .. MaxSystems : Unit % d = 0

VARIABLES
    song,        \* [step, hole, lost, misread]: what is true of the song
    numbers,     \* the number read at each system
    tolerance,   \* the increment per system that still counts as usual
    pos,         \* the system whose reading is looked at
    accepted,    \* the system whose reading the next one is compared with
    issues,      \* what is reported
    pc

vars == <<song, numbers, tolerance, pos, accepted, issues, pc>>

Unread == -1

-----------------------------------------------------------------------------
(* The numbers that head the systems of a song. *)
Truth(s, i) == 1 + s.step * (i - 1) + IF i > s.hole THEN s.lost ELSE 0

(* Either bars are missing, or one system is misread. *)
Songs == [step : Steps, hole : 1 .. MaxSystems, lost : Losses, misread : {0}]
         \cup [step : Steps, hole : {MaxSystems}, lost : {0}, misread : 1 .. MaxSystems]

Init ==
    /\ song \in Songs
    /\ \E n \in 1 .. MaxSystems :
        \E read \in SUBSET (1 .. n) : \E wrong \in Misreads :
            numbers = [i \in 1 .. n |->
                         IF i = song.misread THEN wrong
                         ELSE IF i \in read THEN Truth(song, i) ELSE Unread]
    /\ tolerance = 0
    /\ pos = 1
    /\ accepted = 0
    /\ issues = <<>>
    /\ pc = "calibrate"

-----------------------------------------------------------------------------
N == Len(numbers)

(* The systems whose number was read. *)
Known == {i \in 1 .. N : numbers[i] # Unread}

(* The one that follows system i, N + 1 when there is none. *)
Following(i) ==
    CHOOSE j \in Known \cup {N + 1} :
        i < j /\ \A m \in Known \cup {N + 1} : i < m => j <= m

(* Increments per system, in 1/Unit, of the pairs of readings that grow.    *)
PerSystem ==
    {<<i, (Unit \div (Following(i) - i)) * (numbers[Following(i)] - numbers[i])>> :
        i \in {i \in Known : Following(i) <= N /\ numbers[Following(i)] > numbers[i]}}

(* The value of rank r in a set of pairs ordered by their second members.   *)
Ranked(S, r) ==
    (CHOOSE p \in S :
        /\ Cardinality({q \in S : q[2] < p[2]}) < r
        /\ r <= Cardinality({q \in S : q[2] <= p[2]}))[2]

(* Twice the median: the sum of the two values in the middle. *)
Median2(S) ==
    LET c == Cardinality(S)
    IN  Ranked(S, (c + 1) \div 2) + Ranked(S, c \div 2 + 1)

(* The usual increment, in 1 / (2 * Unit). *)
Typical == IF PerSystem = {} THEN 2 * Unit ELSE Median2(PerSystem)

Larger(a, b) == IF a >= b THEN a ELSE b

(* Mutant of Allowed: systems that could not be read are forgotten. *)
AllowedForOne(i, j) == tolerance

(* What the numbers may grow by from system i to system j. *)
Allowed(i, j) == tolerance * (j - i)

Growth(i, j) == 2 * Unit * (numbers[j] - numbers[i])

Fits(i, j) == 0 <= Growth(i, j) /\ Growth(i, j) <= Allowed(i, j)

(* The usual increment is measured from the sequence. *)
Calibrate ==
    /\ pc = "calibrate"
    /\ tolerance' = Larger(2 * Typical, Typical + 8 * Unit)
    /\ pc' = "anchor"
    /\ UNCHANGED <<song, numbers, pos, accepted, issues>>

(* The comparison starts at the first reading that the next one fits, or at *)
(* the first of all.                                                        *)
Start ==
    LET good == {i \in Known : Following(i) <= N /\ Fits(i, Following(i))}
        from == IF good = {} THEN Known ELSE good
    IN  CHOOSE i \in from : \A j \in from : i <= j

Anchor ==
    /\ pc = "anchor"
    /\ Known # {}
    /\ accepted' = Start
    /\ pos' = Following(Start)
    /\ pc' = "scan"
    /\ UNCHANGED <<song, numbers, tolerance, issues>>

Scanning == pc = "scan" /\ pos <= N

(* Mutant of Recovers: the next reading is compared with the doubtful one. *)
Confirmed == Following(pos) <= N /\ Fits(pos, Following(pos))

(* The next reading fits what was accepted: this one was misread. *)
Recovers == Following(pos) <= N /\ Fits(accepted, Following(pos))

(* Mutant of Implausible: every jump is. *)
Unusual == Growth(accepted, pos) > Allowed(accepted, pos)

(* No loss inside a song explains a jump of this size. *)
Implausible == Growth(accepted, pos) > 20 * Allowed(accepted, pos)

Accept ==
    /\ Scanning
    /\ Fits(accepted, pos)
    /\ accepted' = pos
    /\ pos' = Following(pos)
    /\ UNCHANGED <<song, numbers, tolerance, issues, pc>>

Skip ==
    /\ Scanning
    /\ ~Fits(accepted, pos)
    /\ Recovers \/ Implausible
    /\ pos' = Following(pos)
    /\ UNCHANGED <<song, numbers, tolerance, accepted, issues, pc>>

(* Mutant of Kind: every issue is a gap. *)
GapAlways == "gap"

Kind == IF numbers[pos] < numbers[accepted] THEN "backwards" ELSE "gap"

Report ==
    /\ Scanning
    /\ ~Fits(accepted, pos)
    /\ ~Recovers /\ ~Implausible
    /\ issues' = Append(issues, [system |-> pos, kind |-> Kind,
                                 from |-> numbers[accepted], to |-> numbers[pos]])
    /\ accepted' = pos
    /\ pos' = Following(pos)
    /\ UNCHANGED <<song, numbers, tolerance, pc>>

(* When less than half of the systems could be read, nothing is reported.   *)
Conclude ==
    /\ \/ pc = "scan" /\ pos > N
       \/ pc = "anchor" /\ Known = {}
    /\ issues' = IF 2 * Cardinality(Known) < N THEN <<>> ELSE issues
    /\ pc' = "done"
    /\ UNCHANGED <<song, numbers, tolerance, pos, accepted>>

Finished == pc = "done" /\ UNCHANGED vars

Next ==
    \/ Calibrate \/ Anchor
    \/ Accept \/ Skip \/ Report
    \/ Conclude \/ Finished

Spec == Init /\ [][Next]_vars

-----------------------------------------------------------------------------
(* Type invariant. *)
TypeOK ==
    /\ song \in Songs
    /\ N \in 1 .. MaxSystems
    /\ numbers \in [1 .. N -> Nat \cup {Unread}]
    /\ tolerance \in Nat
    /\ pos \in 1 .. N + 1
    /\ accepted \in 0 .. N
    /\ pc \in {"calibrate", "anchor", "scan", "done"}

(* Every issue names a system and the number read there, the kind says      *)
(* which way the numbers go, and the issues come in the order of the        *)
(* systems and are about different ones (verify.py:233-236).                *)
IssuesSound ==
    /\ \A i \in DOMAIN issues :
        /\ issues[i].system \in Known
        /\ issues[i].to = numbers[issues[i].system]
        /\ issues[i].kind = "gap" => issues[i].from < issues[i].to
        /\ issues[i].kind = "backwards" => issues[i].to < issues[i].from
    /\ \A i, j \in DOMAIN issues : i < j => issues[i].system < issues[j].system

(* A song that is all there is never reported, whatever its bars per system *)
(* and whichever of its numbers could not be read                           *)
(* (tests/test_measure_continuity.py:7-20, verify.py:201-231).              *)
HealthyQuiet ==
    pc = "done" /\ song.lost = 0 /\ song.misread = 0 => issues = <<>>

(* The usual increment was measured right. *)
Measured ==
    tolerance = 2 * Unit * Larger(2 * song.step, song.step + 4)

(* One wrong number that does not fit the reading before it, and is not the *)
(* last, is not reported and does not spoil the comparison with the next    *)
(* one (tests/test_measure_continuity.py:23-29, verify.py:223-231).         *)
MisreadIgnored ==
    /\ pc = "done" /\ Measured /\ Cardinality(Known) >= 3
    /\ song.misread \in Known /\ Following(song.misread) <= N
    /\ \A i \in Known : Following(i) = song.misread => ~Fits(i, song.misread)
    => issues = <<>>

(* Missing bars are reported as a gap, at the first system after them, when *)
(* neither the reading there nor the one after it is within what would be   *)
(* usual, and the loss is plausible (tests/test_measure_continuity.py:39-45,*)
(* verify.py:218-236).                                                      *)
LossReported ==
    \A i \in Known :
        LET j == Following(i)
        IN  /\ pc = "done" /\ Measured
            /\ 2 * Cardinality(Known) >= N
            /\ \E h \in Known : h < i
            /\ i <= song.hole /\ song.hole < j /\ j <= N
            /\ ~Fits(i, j)
            /\ Following(j) <= N => ~Fits(i, Following(j))
            /\ Growth(i, j) <= 20 * Allowed(i, j)
            => /\ Len(issues) = 1
               /\ issues[1].kind = "gap"
               /\ issues[1].system = j
               /\ issues[1].from = numbers[i]

(* Missing bars that do not fit are reported, because "bar numbers are      *)
(* OCR'd and gaps are flagged" (README.md:166): here every number was read, *)
(* and read right, with two systems at least on both sides of the hole.  It *)
(* does not hold.                                                           *)
GapsFlagged ==
    /\ pc = "done"
    /\ Known = 1 .. N /\ song.misread = 0
    /\ song.hole \in 2 .. N - 2
    /\ Measured
    /\ ~Fits(song.hole, song.hole + 1)
    /\ Growth(song.hole, song.hole + 1) <= 20 * Allowed(song.hole, song.hole + 1)
    => issues # <<>>

=============================================================================
