------------------------------- MODULE Speakers -------------------------------
(***************************************************************************)
(* Who says what: the diarization with its cap on the number of speakers   *)
(* (diarize of pipeline/diarize.py) and the assignment of its labels to    *)
(* the words of a segment (pipeline/merge.py).                             *)
(*                                                                         *)
(* Times are small numbers.  The code halves sums of two times; here every *)
(* mid-point is kept doubled.  A word is its mid-point, the only thing the *)
(* assignment reads of it.  Segments are independent: one is enough.       *)
(***************************************************************************)
EXTENDS Integers, Sequences, FiniteSets, FiniteSetsExt

CONSTANTS Labels,       \* of pyannote's speakers
          UNKNOWN,      \* UNKNOWN_SPEAKER
          MaxTime, MaxTurns, MaxWords,
          Hints,        \* values of max_speakers
          NoHint        \* None

ASSUME SpeakersAssumption ==
    /\ UNKNOWN \notin Labels
    /\ MaxTime \in Nat /\ MaxTurns \in Nat /\ MaxWords \in Nat
    /\ Hints \subseteq Int \cup {NoHint}

VARIABLES
    stage,      \* "waiting", "diarized", "capped", "merged"
    turns,      \* what pyannote returns: intervals with a label
    hint,       \* max_speakers
    floor,      \* what diarize returns
    words,      \* the words of the segment
    spoken,     \* the label of each word
    speaker     \* the label of the segment

speakersVars == <<stage, turns, hint, floor, words, spoken, speaker>>

Turns == {t \in [start : 0..MaxTime, end : 0..MaxTime, label : Labels] : t.start < t.end}
Mids == 0..2 * MaxTime
UpTo(n, S) == UNION {[1..k -> S] : k \in 0..n}

\* A job that waits for its diarization.
SpeakersIdle ==
    /\ stage = "waiting"
    /\ turns = <<>> /\ floor = <<>> /\ words = <<>> /\ spoken = <<>>
    /\ hint = NoHint
    /\ speaker = UNKNOWN

Heard(seq) == {seq[i].label : i \in DOMAIN seq}

Mid(t) == t.start + t.end

Gap(a, b) == IF a < b THEN b - a ELSE a - b

\* min(I, key=cost): the first of the cheapest.
FirstCheapest(I, cost(_)) ==
    CHOOSE i \in I : \A j \in I : cost(i) < cost(j) \/ (cost(i) = cost(j) /\ i <= j)

-----------------------------------------------------------------------------
(* _cap_speakers_by_duration *)

\* What s has spoken in the first turns, in all of them.
Spoken(seq, s) ==
    LET total[n \in 0..Len(seq)] ==
          IF n = 0 THEN 0
          ELSE total[n - 1] + (IF seq[n].label = s THEN seq[n].end - seq[n].start ELSE 0)
    IN  total

Duration(seq, s) == Spoken(seq, s)[Len(seq)]

FirstTurn(seq, s) == Min({i \in DOMAIN seq : seq[i].label = s})

\* The order of the sort by duration: a stable one, over a dict in order of appearance.
GoesBefore(seq, s, t) ==
    \/ Duration(seq, s) > Duration(seq, t)
    \/ Duration(seq, s) = Duration(seq, t) /\ FirstTurn(seq, s) < FirstTurn(seq, t)

\* The shortest ones first.
TopNAscending(seq, n) ==
    {s \in Heard(seq) : Cardinality({t \in Heard(seq) : GoesBefore(seq, s, t)}) < n}

TopN(seq, n) ==
    {s \in Heard(seq) : Cardinality({t \in Heard(seq) : GoesBefore(seq, t, s)}) < n}

NearestTopSpeaker(seq, top, mid) ==
    seq[FirstCheapest({i \in DOMAIN seq : seq[i].label \in top},
                      LAMBDA i : Gap(Mid(seq[i]), mid))].label

CapSpeakersByDuration(seq, n) ==
    IF n <= 0 \/ Cardinality(Heard(seq)) <= n
    THEN seq
    ELSE LET top == TopN(seq, n)
         IN  [i \in DOMAIN seq |->
                 IF seq[i].label \in top
                 THEN seq[i]
                 ELSE [seq[i] EXCEPT !.label = NearestTopSpeaker(seq, top, Mid(seq[i]))]]

-----------------------------------------------------------------------------
(* merge.py *)

Contains(t, mid) == 2 * t.start <= mid /\ mid <= 2 * t.end

\* The distance to the nearer end of the interval.
Distance(t, mid) ==
    IF mid < 2 * t.start THEN 2 * t.start - mid
    ELSE IF mid > 2 * t.end THEN mid - 2 * t.end ELSE 0

\* In a silence the turn whose middle is nearest.
SpeakerByCentroid(mid, seq) ==
    LET inside == {i \in DOMAIN seq : Contains(seq[i], mid)}
    IN  IF inside # {}
        THEN seq[Min(inside)].label
        ELSE seq[FirstCheapest(DOMAIN seq, LAMBDA i : Gap(Mid(seq[i]), mid))].label

SpeakerForMidpoint(mid, seq) ==
    LET inside == {i \in DOMAIN seq : Contains(seq[i], mid)}
    IN  IF inside # {}
        THEN seq[Min(inside)].label
        ELSE seq[FirstCheapest(DOMAIN seq, LAMBDA i : Distance(seq[i], mid))].label

Count(said, s) == Cardinality({i \in DOMAIN said : said[i] = s})

\* Counter.most_common(1): the first of the most frequent ones.
SegmentMajoritySpeaker(said) ==
    said[FirstCheapest(DOMAIN said, LAMBDA i : 0 - Count(said, said[i]))]

\* A segment that the alignment left without words is one word, at its middle.
SegmentWords(ws) == IF ws = <<>> THEN {<<middle>> : middle \in Mids} ELSE {ws}

AssignSpeakers(ws, seq) ==
    [i \in DOMAIN ws |-> IF seq = <<>> THEN UNKNOWN ELSE SpeakerForMidpoint(ws[i], seq)]

-----------------------------------------------------------------------------
\* The pyannote pipeline returns its turns in the order of their starts; they may
\* overlap.
RunsPyannote ==
    /\ stage = "waiting"
    /\ \E seq \in UpTo(MaxTurns, Turns) :
          /\ \A i \in 2..Len(seq) : seq[i - 1].start <= seq[i].start
          /\ turns' = seq
    /\ hint' \in Hints
    /\ stage' = "diarized"
    /\ UNCHANGED <<floor, words, spoken, speaker>>

Diarizes ==
    /\ stage = "diarized"
    /\ floor' = IF hint = NoHint THEN turns ELSE CapSpeakersByDuration(turns, hint)
    /\ stage' = "capped"
    /\ UNCHANGED <<turns, hint, words, spoken, speaker>>

\* The words come in order.
Merges ==
    /\ stage = "capped"
    /\ \E ws \in UpTo(MaxWords, Mids) :
          /\ \A i \in 2..Len(ws) : ws[i - 1] <= ws[i]
          /\ words' \in SegmentWords(ws)
    /\ spoken' = AssignSpeakers(words', floor)
    /\ speaker' = SegmentMajoritySpeaker(spoken')
    /\ stage' = "merged"
    /\ UNCHANGED <<turns, hint, floor>>

SpeakersNext == RunsPyannote \/ Diarizes \/ Merges

SpeakersSpec == SpeakersIdle /\ [][SpeakersNext]_speakersVars

-----------------------------------------------------------------------------
(* Properties *)

TooMany == hint # NoHint /\ hint > 0 /\ Cardinality(Heard(turns)) > hint

\* The cap of diarize: of more labels than max_speakers as many as that are left,
\* otherwise nothing is touched; no turn is moved or lost, a speaker is kept or given
\* up as a whole, none given up for one who speaks less, and a turn is given to one
\* of the kept speakers no farther than the others.
CapKeepsTheFloor ==
    stage \in {"capped", "merged"} =>
      /\ Len(floor) = Len(turns)
      /\ IF TooMany THEN Cardinality(Heard(floor)) = hint ELSE floor = turns
      /\ \A i \in DOMAIN turns :
            /\ floor[i].start = turns[i].start /\ floor[i].end = turns[i].end
            /\ floor[i].label # turns[i].label =>
                  /\ turns[i].label \notin Heard(floor)
                  /\ \A s \in Heard(floor) : Duration(turns, s) >= Duration(turns, turns[i].label)
                  /\ \E j \in DOMAIN turns :
                        /\ turns[j].label = floor[i].label
                        /\ \A k \in DOMAIN turns : turns[k].label \in Heard(floor) =>
                              Gap(Mid(turns[j]), Mid(turns[i])) <= Gap(Mid(turns[k]), Mid(turns[i]))

SpeaksAt(s, mid) == \E i \in DOMAIN floor : floor[i].label = s /\ Contains(floor[i], mid)

\* s stopped before mid, the last to do so, and nobody begins sooner; or begins
\* after it, sooner than anybody else and than somebody stopped.
JustStopped(s, mid) ==
    \E i \in DOMAIN floor :
        /\ floor[i].label = s /\ 2 * floor[i].end < mid
        /\ \A j \in DOMAIN floor : Distance(floor[i], mid) <= Distance(floor[j], mid)

AboutToBegin(s, mid) ==
    \E i \in DOMAIN floor :
        /\ floor[i].label = s /\ mid < 2 * floor[i].start
        /\ \A j \in DOMAIN floor :
              \/ Distance(floor[i], mid) < Distance(floor[j], mid)
              \/ /\ Distance(floor[i], mid) = Distance(floor[j], mid)
                 /\ mid < 2 * floor[j].start

\* A word goes to one who speaks at its middle; in a silence to the one who just
\* stopped, or to the one who begins if that is sooner; to UNKNOWN when nobody
\* speaks at all.  A segment goes to a speaker with the most words, of those to the
\* one whose word comes first.
WordsGoToTheirSpeakers ==
    stage = "merged" =>
      /\ \A i \in DOMAIN words :
            \/ floor = <<>> /\ spoken[i] = UNKNOWN
            \/ SpeaksAt(spoken[i], words[i])
            \/ /\ \A s \in Heard(floor) : ~SpeaksAt(s, words[i])
               /\ \/ JustStopped(spoken[i], words[i])
                  \/ AboutToBegin(spoken[i], words[i])
      /\ \A i \in DOMAIN spoken :
            \/ Count(spoken, spoken[i]) < Count(spoken, speaker)
            \/ /\ Count(spoken, spoken[i]) = Count(spoken, speaker)
               /\ \E j \in 1..i : spoken[j] = speaker

=============================================================================
