------------------------------ MODULE VisionProofs ------------------------------
(***************************************************************************)
(* Proofs about the tracks of a camera: what the movement engine remembers *)
(* of them, and what recognition reports of them.                          *)
(***************************************************************************)
EXTENDS Vision, SequenceTheorems, TLAPS

-----------------------------------------------------------------------------
(***************************************************************************)
(* Tracker and movement engine.                                            *)
(***************************************************************************)
\* A track the tracker holds was missed by the movement engine in no more frames than
\* passed since the tracker saw it, and those are within the tracker's limit.
Ages ==
    /\ \A t \in Tracks : last[t] <= frame /\ missing[t] <= frame
    /\ \A t \in tracked : last[t] = frame
    /\ \A t \in lost : frame - last[t] <= MaxLost
    /\ \A t \in tracked \cup lost : missing[t] <= frame - last[t]

TrackingInv == TypeOK /\ FoundIsRemembered /\ Ages

LEMMA TrackingStarts == Init => TrackingInv
BY TrackingConstants DEF Init, TrackingInv, TypeOK, FoundIsRemembered, Ages, Tracks

\* One frame, whatever it is associated with.
LEMMA FrameKeeps ==
    ASSUME TrackingInv, NEW first \in SUBSET (tracked \cup lost), NEW fresh \in 0..MaxPersons,
           NEW second \in SUBSET (tracked \ first), Associate(first, second, fresh)
    PROVE  TrackingInv'
<1> DEFINE shown == first \cup second \cup NewTracks(fresh)
<1>1. /\ frame \in Nat /\ frame' = frame + 1 /\ frame' <= MaxFrames
      /\ created \in Nat /\ fresh \in Nat /\ created' = created + fresh /\ created' <= MaxTracks
  BY TrackingConstants DEF TrackingInv, TypeOK, Associate, Frame, Update
<1>2. /\ tracked' = shown
      /\ lost' = {t \in (tracked \cup lost) \ shown : ~Expires(t)}
      /\ last' = [t \in Tracks |-> IF t \in shown THEN frame + 1 ELSE last[t]]
  BY DEF Associate, Frame, Update
<1>3. /\ tracked \subseteq 1..created /\ lost \subseteq 1..created /\ known \subseteq 1..created
      /\ 1..created \subseteq 1..created' /\ 1..created' \subseteq Tracks
  BY <1>1, TrackingConstants DEF TrackingInv, TypeOK, Tracks
<1>4. shown \subseteq 1..created'
  BY <1>1, <1>3 DEF NewTracks
<1>5. \A t \in Tracks : last[t] \in Nat /\ missing[t] \in Nat /\ last[t] <= frame /\ missing[t] <= frame
  BY DEF TrackingInv, TypeOK, Ages
<1>6. \A t \in lost' : frame' - last[t] <= MaxLost /\ t \in tracked \cup lost /\ t \notin shown
  BY <1>1, <1>2, <1>3, <1>5, TrackingConstants DEF Expires
<1>7. \A t \in lost' : t \in known /\ missing[t] + 1 <= frame' - last[t]
  <2> SUFFICES ASSUME NEW t \in lost' PROVE t \in known /\ missing[t] + 1 <= frame' - last[t]
    OBVIOUS
  <2>1. t \in tracked \cup lost /\ t \in Tracks
    BY <1>3, <1>6
  <2>2. t \in known /\ missing[t] <= frame - last[t]
    BY <2>1 DEF TrackingInv, FoundIsRemembered, Ages
  <2>3. missing[t] \in Nat /\ last[t] \in Nat
    BY <1>5, <2>1
  <2> QED
    BY <1>1, <2>2, <2>3
<1>8. /\ known' \subseteq 1..created' /\ missing' \in [Tracks -> 0..MaxFrames]
      /\ \A t \in Tracks : missing'[t] <= frame'
      /\ \A t \in tracked' \cup lost' : t \in known'
      /\ \A t \in tracked' : missing'[t] = 0
      /\ \A t \in lost' : missing'[t] <= missing[t] + 1
  <2>1. CASE shown = {}
    <3>1. known' = known /\ missing' = missing
      BY <2>1 DEF Associate, Frame, memory
    <3> QED
      BY <1>1, <1>2, <1>3, <1>5, <1>7, <2>1, <3>1 DEF TrackingInv, TypeOK
  <2>2. CASE shown # {}
    <3>1. /\ known' = shown \cup {t \in known : ~Forgotten(t)}
          /\ missing' = [t \in Tracks |-> IF t \in known \ shown THEN missing[t] + 1 ELSE 0]
      BY <2>2 DEF Associate, Frame, Remember
    <3>2. \A t \in lost' : ~Forgotten(t)
      <4> SUFFICES ASSUME NEW t \in lost' PROVE ~Forgotten(t)
        OBVIOUS
      <4>1. /\ missing[t] + 1 <= frame' - last[t] /\ frame' - last[t] <= MaxLost /\ t \in Tracks
        BY <1>3, <1>6, <1>7
      <4> QED
        BY <1>1, <1>5, <4>1, TrackingConstants DEF Forgotten
    <3>3. known' \subseteq 1..created'
      BY <1>3, <1>4, <3>1
    <3>4. \A t \in Tracks : missing'[t] \in Nat /\ missing'[t] <= frame'
      BY <1>1, <1>5, <3>1
    <3>5. missing' \in [Tracks -> 0..MaxFrames]
      BY <1>1, <3>1, <3>4, TrackingConstants
    <3>6. \A t \in tracked' \cup lost' : t \in known'
      BY <1>2, <1>7, <3>1, <3>2
    <3>7. \A t \in tracked' : missing'[t] = 0
      BY <1>2, <1>3, <1>4, <3>1
    <3>8. \A t \in lost' : missing'[t] <= missing[t] + 1
      <4> SUFFICES ASSUME NEW t \in lost' PROVE missing'[t] <= missing[t] + 1
        OBVIOUS
      <4>1. t \in Tracks
        BY <1>3, <1>6
      <4>2. missing'[t] = (IF t \in known \ shown THEN missing[t] + 1 ELSE 0) /\ missing[t] \in Nat
        BY <1>5, <3>1, <4>1
      <4> QED
        BY <4>2
    <3> QED
      BY <3>3, <3>4, <3>5, <3>6, <3>7, <3>8
  <2> QED
    BY <2>1, <2>2
<1>9. \A t \in Tracks : last'[t] \in 0..MaxFrames /\ last'[t] <= frame'
  BY <1>1, <1>2, <1>5, TrackingConstants
<1>10. TypeOK'
  <2>1. frame' \in 0..MaxFrames /\ created' \in 0..MaxTracks
    BY <1>1, TrackingConstants
  <2>2. tracked' \subseteq 1..created' /\ lost' \subseteq 1..created'
    BY <1>2, <1>3, <1>4
  <2>3. last' \in [Tracks -> 0..MaxFrames]
    BY <1>2, <1>9
  <2> QED
    BY <1>8, <2>1, <2>2, <2>3 DEF TypeOK, Tracks
<1>11. Ages'
  <2>1. \A t \in tracked' : last'[t] = frame' /\ t \in Tracks
    BY <1>1, <1>2, <1>3, <1>4
  <2>2. \A t \in lost' : last'[t] = last[t] /\ t \in Tracks
    BY <1>2, <1>3, <1>6
  <2>3. \A t \in tracked' : missing'[t] <= frame' - last'[t]
    BY <1>1, <1>8, <2>1
  <2>4. \A t \in lost' : missing'[t] <= frame' - last'[t]
    <3> SUFFICES ASSUME NEW t \in lost' PROVE missing'[t] <= frame' - last'[t]
      OBVIOUS
    <3>1. missing'[t] \in Int /\ missing[t] \in Nat /\ last[t] \in Nat
      BY <1>5, <1>8, <2>2
    <3> QED
      BY <1>1, <1>7, <1>8, <2>2, <3>1
  <2> QED
    BY <1>6, <1>8, <1>9, <2>1, <2>2, <2>3, <2>4 DEF Ages, Tracks
<1> QED
  BY <1>8, <1>10, <1>11 DEF TrackingInv, FoundIsRemembered

LEMMA TrackingKept ==
    ASSUME TrackingInv, [Next]_tracking
    PROVE  TrackingInv'
<1>1. CASE Next
  BY <1>1, FrameKeeps DEF Next
<1>2. CASE UNCHANGED tracking
  BY <1>2 DEF tracking, TrackingInv, TypeOK, FoundIsRemembered, Ages, Tracks
<1> QED
  BY <1>1, <1>2

\* A frame of the camera, or a change of the store, is a step of the tracks or none.
LEMMA VisionTracks == [VisionNext]_vars => [Next]_tracking
BY DEF VisionNext, VisionFrame, AddIdentity, RemoveIdentity, vars, tracking

\* Every value the tracker and the movement engine keep has its type, whatever the
\* limits and however many frames the camera delivers.
THEOREM TypeCorrect == VisionSpec => []TypeOK
<1>1. VisionInit => TrackingInv
  BY TrackingStarts DEF VisionInit
<1>2. TrackingInv /\ [VisionNext]_vars => TrackingInv'
  BY TrackingKept, VisionTracks
<1>3. TrackingInv => TypeOK
  BY DEF TrackingInv
<1> QED
  BY <1>1, <1>2, <1>3, PTL DEF VisionSpec

\* No track is found again by the tracker after the movement engine has forgotten it, as
\* long as the movement engine's limit is not the smaller one.
THEOREM Remembered == VisionSpec => []FoundIsRemembered
<1>1. VisionInit => TrackingInv
  BY TrackingStarts DEF VisionInit
<1>2. TrackingInv /\ [VisionNext]_vars => TrackingInv'
  BY TrackingKept, VisionTracks
<1>3. TrackingInv => FoundIsRemembered
  BY DEF TrackingInv
<1> QED
  BY <1>1, <1>2, <1>3, PTL DEF VisionSpec
-----------------------------------------------------------------------------
(***************************************************************************)
(* Recognition.                                                            *)
(***************************************************************************)
Match(i) == [status |-> "MATCHED", who |-> i]
Streak == [who : Identities \cup {Unknown}, length : 0..Confirm,
           settled : Identities \cup {Unknown}]

\* The run is the longest suffix of the window that is matches of one identity.
Suffix(w, r) ==
    /\ w \in Seq(Sight) /\ Len(w) <= Confirm /\ r \in Streak
    /\ r.length <= Len(w)
    /\ \A k \in (Len(w) - r.length + 1)..Len(w) : w[k] = Match(r.who)
    /\ r.length < Len(w) => w[Len(w) - r.length] # Match(r.who)
    /\ r.length = 0 /\ Len(w) > 0 => w[Len(w)].status # "MATCHED"

RecognitionInv ==
    /\ window \in [Tracks -> Seq(Sight)] /\ stable \in [Tracks -> Identities \cup {Unknown}]
    /\ streak \in [Tracks -> Streak] /\ store \subseteq Identities
    /\ \A t \in Tracks : Suffix(window[t], streak[t])
    /\ StableIsEarned

\* deque.append: the window keeps its last Confirm entries.
LEMMA AppendKeepsTail ==
    ASSUME NEW w \in Seq(Sight), Len(w) <= Confirm, NEW s \in Sight
    PROVE  LET v == AppendSight(w, s)
           IN  /\ v \in Seq(Sight)
               /\ Len(v) = IF Len(w) < Confirm THEN Len(w) + 1 ELSE Confirm
               /\ v[Len(v)] = s
               /\ \A k \in 1..(Len(v) - 1) : v[k] = w[k + Len(w) + 1 - Len(v)]
<1> DEFINE all == Append(w, s)
           v == AppendSight(w, s)
<1>1. /\ all \in Seq(Sight) /\ Len(all) = Len(w) + 1 /\ Len(w) \in Nat
      /\ all[Len(w) + 1] = s /\ \A k \in 1..Len(w) : all[k] = w[k]
  OBVIOUS
<1>2. CASE Len(w) < Confirm
  <2>1. v = all
    BY <1>1, <1>2, VisionConstants DEF AppendSight
  <2> HIDE DEF all, v
  <2> QED
    BY <1>1, <1>2, <2>1, VisionConstants DEF v
<1>3. CASE Len(w) = Confirm
  <2>1. v = Tail(all)
    BY <1>1, <1>3, VisionConstants DEF AppendSight
  <2>2. /\ Tail(all) \in Seq(Sight) /\ Len(Tail(all)) = Len(w)
        /\ \A k \in 1..Len(w) : Tail(all)[k] = all[k + 1]
    BY <1>1
  <2> HIDE DEF all, v
  <2>3. /\ v \in Seq(Sight) /\ Len(v) = Confirm /\ v[Len(v)] = s
        /\ \A k \in 1..(Len(v) - 1) : v[k] = w[k + Len(w) + 1 - Len(v)]
    <3>1. Len(v) = Len(w) /\ v[Len(w)] = all[Len(w) + 1]
      BY <1>1, <1>3, <2>1, <2>2, VisionConstants
    <3>2. ASSUME NEW k \in 1..(Len(v) - 1) PROVE v[k] = w[k + Len(w) + 1 - Len(v)]
      <4>1. k \in 1..Len(w) /\ k + 1 \in 1..Len(w) /\ k + Len(w) + 1 - Len(v) = k + 1
        BY <1>1, <3>1
      <4>2. v[k] = all[k + 1] /\ all[k + 1] = w[k + 1]
        BY <1>1, <2>1, <2>2, <4>1
      <4> QED
        BY <4>1, <4>2
    <3> QED
      BY <1>1, <1>3, <2>1, <2>2, <3>1, <3>2
  <2> QED
    BY <1>1, <1>3, <2>3, VisionConstants DEF v
<1> QED
  BY <1>1, <1>2, <1>3, VisionConstants

\* An observation keeps run and window together, and the window confirms an identity
\* just when the run has become long enough.
LEMMA ObservationKeeps ==
    ASSUME NEW w, NEW r, Suffix(w, r), NEW s \in Sight, Records(s)
    PROVE  /\ Suffix(AppendSight(w, s), Continue(r, s))
           /\ Continue(r, s).settled =
                  IF Confirmed(AppendSight(w, s), s) THEN s.who ELSE r.settled
<1> DEFINE v == AppendSight(w, s)
           q == Continue(r, s)
<1>1. /\ w \in Seq(Sight) /\ Len(w) \in Nat /\ Len(w) <= Confirm /\ Confirm \in Nat \ {0}
      /\ r.length \in 0..Confirm /\ r.length <= Len(w)
      /\ r.who \in Identities \cup {Unknown} /\ r.settled \in Identities \cup {Unknown}
      /\ r \in Streak
  BY VisionConstants DEF Suffix, Streak
<1>2. /\ v \in Seq(Sight) /\ Len(v) \in Nat
      /\ Len(v) = IF Len(w) < Confirm THEN Len(w) + 1 ELSE Confirm
      /\ v[Len(v)] = s
      /\ \A k \in 1..(Len(v) - 1) : v[k] = w[k + Len(w) + 1 - Len(v)]
  <2> HIDE DEF q
  <2>1. w \in Seq(Sight) /\ Len(w) <= Confirm /\ s \in Sight
    BY <1>1
  <2>2. /\ v \in Seq(Sight)
        /\ Len(v) = IF Len(w) < Confirm THEN Len(w) + 1 ELSE Confirm
        /\ v[Len(v)] = s
        /\ \A k \in 1..(Len(v) - 1) : v[k] = w[k + Len(w) + 1 - Len(v)]
    BY ONLY <2>1, AppendKeepsTail, Zenon
  <2> HIDE DEF v
  <2>3. Len(v) \in Nat
    BY <2>2
  <2> QED
    BY <2>2, <2>3
<1> HIDE DEF v
<1>3. CASE s.status # "MATCHED"
  <2>1. q = [who |-> Unknown, length |-> 0, settled |-> r.settled]
    BY <1>3 DEF Continue, Records
  <2>2. q \in Streak /\ q.length = 0 /\ q.who = Unknown /\ q.settled = r.settled
    BY <1>1, <2>1 DEF Streak
  <2>3. s # Match(Unknown)
    BY <1>3 DEF Match
  <2>4. Suffix(v, q)
    BY <1>1, <1>2, <1>3, <2>2, <2>3 DEF Suffix
  <2> QED
    BY <1>3, <2>2, <2>4 DEF Confirmed, v
<1>4. CASE s.status = "MATCHED"
  <2> DEFINE n == IF s.who = r.who THEN r.length + 1 ELSE 1
             c == IF n > Confirm THEN Confirm ELSE n
  <2>1. s = Match(s.who) /\ s.who \in Identities /\ s.who # Unknown
    BY <1>4, VisionConstants DEF Sight, Match
  <2>2. n \in Nat /\ n >= 1 /\ c \in 1..Confirm /\ (n >= Confirm <=> c = Confirm)
    BY <1>1
  <2>3. q = [who |-> s.who, length |-> c, settled |-> IF n >= Confirm THEN s.who ELSE r.settled]
    BY <1>4 DEF Continue, Records
  <2>4. q \in Streak
    BY <1>1, <2>1, <2>2, <2>3 DEF Streak
  <2>5. c <= Len(v)
    BY <1>1, <1>2, <2>2
  <2>a. /\ c > 1 => s.who = r.who
        /\ s.who = r.who => n = r.length + 1
        /\ s.who # r.who => n = 1
        /\ c <= n /\ (n < Confirm => c = n) /\ (c < Confirm => c = n)
    BY <1>1, <2>2
  <2> HIDE DEF n, c
  <2>6. \A k \in (Len(v) - c + 1)..Len(v) : v[k] = Match(s.who)
    <3> SUFFICES ASSUME NEW k \in (Len(v) - c + 1)..Len(v) PROVE v[k] = Match(s.who)
      OBVIOUS
    <3>1. CASE k = Len(v)
      BY <1>2, <2>1, <3>1
    <3>2. CASE k # Len(v)
      <4> DEFINE j == k + Len(w) + 1 - Len(v)
      <4>1. k \in 1..(Len(v) - 1) /\ c > 1 /\ c \in Nat
        BY <1>1, <1>2, <2>2, <2>5, <3>2
      <4>2. s.who = r.who /\ n = r.length + 1
        BY <2>a, <4>1
      <4>3. k > Len(v) - c /\ c <= r.length + 1 /\ r.length \in Nat
        BY <1>1, <1>2, <2>a, <4>1, <4>2
      <4>a. /\ Len(v) \in Int /\ Len(w) \in Int /\ r.length \in Int /\ k \in Int /\ c \in Int
            /\ k <= Len(v) - 1
        BY <1>1, <1>2, <4>1, <4>3
      <4>5. j \in (Len(w) - r.length + 1)..Len(w)
        BY <4>3, <4>a
      <4>4. w[j] = Match(r.who)
        BY <4>5 DEF Suffix
      <4> QED
        BY <1>2, <4>1, <4>2, <4>4
    <3> QED
      BY <3>1, <3>2
  <2>7. ASSUME c < Len(v) PROVE v[Len(v) - c] # Match(s.who)
    <3> DEFINE j == Len(w) + 1 - c
    <3>1. c < Confirm /\ c = n
      BY <1>1, <1>2, <2>2, <2>7, <2>a
    <3>2. Len(v) - c \in 1..(Len(v) - 1) /\ j \in 1..Len(w) /\ v[Len(v) - c] = w[j]
      <4>1. Len(v) - c \in 1..(Len(v) - 1)
        BY <1>1, <1>2, <2>2, <2>7
      <4>a. Len(v) \in Int /\ Len(w) \in Int /\ c \in Int
        BY <1>1, <1>2, <2>2
      <4>2. (Len(v) - c) + Len(w) + 1 - Len(v) = j
        BY <4>a
      <4>3. v[Len(v) - c] = w[(Len(v) - c) + Len(w) + 1 - Len(v)]
        BY <1>2, <4>1
      <4>4. j \in 1..Len(w)
        BY <1>1, <1>2, <2>2, <2>7
      <4> QED
        BY <4>1, <4>2, <4>3, <4>4
    <3>3. CASE s.who = r.who
      <4>1. j = Len(w) - r.length /\ r.length < Len(w)
        BY <1>1, <2>a, <3>1, <3>2, <3>3
      <4> QED
        BY <3>2, <3>3, <4>1 DEF Suffix
    <3>4. CASE s.who # r.who
      <4>1. j = Len(w) /\ Len(w) > 0
        BY <1>1, <2>a, <3>1, <3>2, <3>4
      <4>2. CASE r.length = 0
        <5>1. w[Len(w)].status # "MATCHED"
          BY <4>1, <4>2 DEF Suffix
        <5> QED
          BY <3>2, <4>1, <5>1 DEF Match
      <4>3. CASE r.length > 0
        <5>1. w[Len(w)] = Match(r.who)
          BY <1>1, <4>3 DEF Suffix
        <5>2. Match(r.who).who = r.who /\ Match(s.who).who = s.who
          BY DEF Match
        <5> QED
          BY <3>2, <3>4, <4>1, <5>1, <5>2
      <4> QED
        BY <1>1, <4>2, <4>3
    <3> QED
      BY <3>3, <3>4
  <2>8. Suffix(v, q)
    BY <1>1, <1>2, <2>2, <2>3, <2>4, <2>5, <2>6, <2>7 DEF Suffix
  <2>9. Confirmed(v, s) <=> n >= Confirm
    <3>1. ASSUME n >= Confirm PROVE Confirmed(v, s)
      <4>1. c = Confirm /\ Len(v) = Confirm
        BY <1>1, <1>2, <2>2, <2>5, <3>1
      <4>2. \A k \in 1..Len(v) : v[k] = s
        BY <1>1, <2>1, <2>6, <4>1
      <4> QED
        BY <1>1, <1>2, <1>4, <4>1, <4>2 DEF Confirmed
    <3>2. ASSUME Confirmed(v, s), n < Confirm PROVE FALSE
      <4>1. c = n /\ c < Len(v) /\ Len(v) = Confirm
        BY <1>1, <1>2, <2>2, <2>a, <3>2 DEF Confirmed
      <4>2. Len(v) - c \in DOMAIN v
        BY <1>1, <1>2, <2>2, <4>1
      <4>3. v[Len(v) - c] = s
        BY <3>2, <4>2 DEF Confirmed
      <4> QED
        BY <2>1, <2>7, <4>1, <4>3
    <3> QED
      BY <1>1, <2>2, <3>1, <3>2
  <2> QED
    BY <2>3, <2>8, <2>9 DEF v
<1> QED
  BY <1>3, <1>4

LEMMA RecognitionStarts == VisionInit => RecognitionInv
<1> SUFFICES ASSUME VisionInit PROVE RecognitionInv
  OBVIOUS
<1>1. <<>> \in Seq(Sight) /\ Len(<<>>) = 0
  OBVIOUS
<1>2. NoStreak \in Streak /\ NoStreak.length = 0 /\ NoStreak.settled = Unknown
  BY VisionConstants DEF NoStreak, Streak
<1>3. Suffix(<<>>, NoStreak)
  BY <1>1, <1>2, VisionConstants DEF Suffix
<1> QED
  BY <1>1, <1>2, <1>3 DEF VisionInit, RecognitionInv, StableIsEarned

\* The recognition of one frame.
LEMMA RecognizeKeeps ==
    ASSUME RecognitionInv, tracked' \subseteq Tracks, NEW seen \in [tracked' -> Sightings],
           Recognize(seen), UNCHANGED store
    PROVE  RecognitionInv'
<1>1. \A t \in tracked' : seen[t] \in Sight
  BY DEF Sightings, MatchResults
<1>2. \A t \in Tracks : /\ Suffix(window[t], streak[t]) /\ stable[t] = streak[t].settled
                        /\ stable[t] \in Identities \cup {Unknown}
  BY DEF RecognitionInv, StableIsEarned
<1>3. ASSUME NEW t \in Tracks
      PROVE  /\ Suffix(window'[t], streak'[t]) /\ stable'[t] = streak'[t].settled
             /\ stable'[t] \in Identities \cup {Unknown}
  <2>1. CASE t \in tracked' /\ Records(seen[t])
    <3>1. /\ window'[t] = AppendSight(window[t], seen[t])
          /\ streak'[t] = Continue(streak[t], seen[t])
          /\ stable'[t] = IF Confirmed(window'[t], seen[t]) THEN seen[t].who ELSE stable[t]
      BY <2>1 DEF Recognize
    <3>2. seen[t] \in Sight
      BY <1>1, <2>1
    <3>3. /\ Suffix(AppendSight(window[t], seen[t]), Continue(streak[t], seen[t]))
          /\ Continue(streak[t], seen[t]).settled =
                IF Confirmed(AppendSight(window[t], seen[t]), seen[t])
                THEN seen[t].who ELSE streak[t].settled
      BY <1>2, <2>1, <3>2, ObservationKeeps
    <3>4. seen[t].who \in Identities \cup {Unknown}
      BY <3>2 DEF Sight
    <3> QED
      BY <1>2, <3>1, <3>3, <3>4
  <2>2. CASE t \in tracked' /\ ~Records(seen[t])
    <3>1. window'[t] = window[t] /\ stable'[t] = stable[t]
          /\ streak'[t] = Continue(streak[t], seen[t])
      BY <2>2 DEF Recognize
    <3>2. Continue(streak[t], seen[t]) = streak[t]
      BY <2>2 DEF Continue, Records
    <3> QED
      BY <1>2, <3>1, <3>2
  <2>3. CASE t \notin tracked'
    <3>1. window'[t] = window[t] /\ stable'[t] = stable[t] /\ streak'[t] = streak[t]
      BY <2>3 DEF Recognize
    <3> QED
      BY <1>2, <3>1
  <2> QED
    BY <2>1, <2>2, <2>3
<1>4. /\ window' = [t \in Tracks |-> window'[t]] /\ stable' = [t \in Tracks |-> stable'[t]]
      /\ streak' = [t \in Tracks |-> streak'[t]]
  BY DEF Recognize
<1>5. \A t \in Tracks : window'[t] \in Seq(Sight) /\ streak'[t] \in Streak
  BY <1>3 DEF Suffix
<1>6. store' \subseteq Identities
  BY DEF RecognitionInv
<1> QED
  BY <1>3, <1>4, <1>5, <1>6 DEF RecognitionInv, StableIsEarned

LEMMA RecognitionKept ==
    ASSUME TrackingInv', RecognitionInv, [VisionNext]_vars
    PROVE  RecognitionInv'
<1>1. CASE VisionFrame
  <2>1. tracked' \subseteq Tracks
    BY TrackingConstants DEF TrackingInv, TypeOK, Tracks
  <2> QED
    BY <1>1, <2>1, RecognizeKeeps DEF VisionFrame
<1>2. ASSUME NEW i \in Identities, AddIdentity(i) \/ RemoveIdentity(i)
      PROVE  RecognitionInv'
  <2>1. store' \subseteq Identities /\ UNCHANGED recognition
    BY <1>2 DEF AddIdentity, RemoveIdentity, RecognitionInv
  <2> QED
    BY <2>1 DEF recognition, RecognitionInv, StableIsEarned
<1>3. CASE UNCHANGED vars
  BY <1>3 DEF vars, RecognitionInv, StableIsEarned
<1> QED
  BY <1>1, <1>2, <1>3 DEF VisionNext

LEMMA Invariance == VisionSpec => [](TrackingInv /\ RecognitionInv)
<1>1. VisionInit => TrackingInv /\ RecognitionInv
  BY TrackingStarts, RecognitionStarts DEF VisionInit
<1>2. TrackingInv /\ RecognitionInv /\ [VisionNext]_vars => (TrackingInv /\ RecognitionInv)'
  BY TrackingKept, VisionTracks, RecognitionKept
<1> QED
  BY <1>1, <1>2, PTL DEF VisionSpec

\* A track is stable as the identity of its last Confirm uninterrupted matches, for any
\* number of confirmation frames: the bounded window decides as a count would.
THEOREM StabilityEarned == VisionSpec => []StableIsEarned
<1>1. RecognitionInv => StableIsEarned
  BY DEF RecognitionInv
<1> QED
  BY <1>1, Invariance, PTL

\* A frame reports a track as nobody but an identity of the store, or the one the track
\* had settled on.
THEOREM KnownMatches == VisionSpec => MatchesAreKnown
<1> DEFINE Known == \A t \in tracked' : frame' # frame /\ report'[t].status = "MATCHED" =>
                        report'[t].who \in store \/ report'[t].who = streak[t].settled
<1>1. TrackingInv' /\ RecognitionInv /\ [VisionNext]_vars => [Known]_vars
  <2> SUFFICES ASSUME TrackingInv', RecognitionInv, VisionNext PROVE Known
    OBVIOUS
  <2>1. CASE VisionFrame
    <3>1. PICK seen \in [tracked' -> Sightings] : Recognize(seen)
      BY <2>1 DEF VisionFrame
    <3>2. SUFFICES ASSUME NEW t \in tracked', report'[t].status = "MATCHED"
                   PROVE  report'[t].who \in store \/ report'[t].who = streak[t].settled
      OBVIOUS
    <3>3. t \in Tracks
      BY TrackingConstants DEF TrackingInv, TypeOK, Tracks
    <3>4. report'[t] = Effective(t, seen[t]) /\ seen[t] \in Sightings
      BY <3>1, <3>3 DEF Recognize
    <3>5. CASE seen[t].status = "BAD" /\ stable[t] # Unknown
      <4>1. report'[t].who = stable[t]
        BY <3>4, <3>5 DEF Effective
      <4> QED
        BY <3>3, <4>1 DEF RecognitionInv, StableIsEarned
    <3>6. CASE ~(seen[t].status = "BAD" /\ stable[t] # Unknown)
      <4>1. report'[t] = seen[t]
        BY <3>4, <3>6 DEF Effective
      <4> QED
        BY <3>2, <3>4, <4>1 DEF Sightings, MatchResults
    <3> QED
      BY <3>5, <3>6
  <2>2. CASE \E i \in Identities : AddIdentity(i) \/ RemoveIdentity(i)
    BY <2>2 DEF AddIdentity, RemoveIdentity, tracking
  <2> QED
    BY <2>1, <2>2 DEF VisionNext
<1> QED
  BY <1>1, Invariance, PTL DEF VisionSpec, MatchesAreKnown
=============================================================================
