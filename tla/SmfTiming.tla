----------------------------- MODULE SmfTiming -----------------------------
(***************************************************************************)
(* From a standard MIDI file to a schedule: the tempo map in ticks, the    *)
(* position of every event in samples (core-lib/src/midi.rs), the preroll  *)
(* (pipeline/rendering.rs) and the transport made of the tempo map         *)
(* (render/playback.rs).                                                   *)
(*                                                                         *)
(* Time is counted in tempo * ticks, of which Scale are Rate samples: what *)
(* the code truncates is truncated here, what f64 rounds is not.           *)
(***************************************************************************)
EXTENDS Integers, Sequences, FiniteSets

CONSTANTS
  Rate, Scale,    \* Scale units of time are Rate samples
  TailFrames,           \* two seconds in samples
  DefaultTempo,   \* DEFAULT_TEMPO_US
  DefaultMeter,   \* DEFAULT_NUMERATOR / DEFAULT_DENOMINATOR
  MaxSegments     \* MAX_TEMPO_SEGMENTS

ASSUME SmfAssumption ==
  /\ {Rate, Scale, TailFrames, DefaultTempo, MaxSegments} \subseteq Nat \ {0}
  /\ DefaultMeter \in Nat

Notes == {"on", "zero", "off"} \* "zero": a note-on of velocity 0
Metas == {"tempo", "meter"}

\* What the tracks of a file are.
Tracks == Seq([delta : Nat, what : Notes \cup Metas \cup {"other"}, value : Nat])

Newest(s) == s[Len(s)]

\* The absolute tick of each event of a track.
Tick(track, i) ==
  LET tick[k \in 0..i] == IF k = 0 THEN 0 ELSE tick[k - 1] + track[k].delta
  IN tick[i]

\* The events of all the tracks, one track after the other.
Listed(file) ==
  LET track(t) == [i \in 1..Len(file[t]) |->
                     [track |-> t, index |-> i, at |-> Tick(file[t], i), what |-> file[t][i].what, value |-> file[t][i].value]]
      all[t \in 0..Len(file)] == IF t = 0 THEN <<>> ELSE all[t - 1] \o track(t)
  IN all[Len(file)]

\* sort_by_key: the events at the places kept, by their keys; equal keys keep their order.
Ordered(events, kept, key) ==
  LET Rank(k) == Cardinality({j \in kept : key[j] < key[k] \/ (key[j] = key[k] /\ j <= k)})
  IN [n \in 1..Cardinality(kept) |-> events[CHOOSE k \in kept : Rank(k) = n]]

(***************************************************************************)
(* The tempo map in ticks                                                  *)
(***************************************************************************)
FirstSegment == [tick |-> 0, at |-> 0, tempo |-> DefaultTempo, meter |-> DefaultMeter]

\* The time at a tick, from the last segment that has begun by then.
SecondsAt(segments, tick) ==
  LET i == CHOOSE k \in 1..Len(segments) :
             /\ segments[k].tick <= tick
             /\ \A l \in k + 1..Len(segments) : segments[l].tick > tick
  IN segments[i].at + (tick - segments[i].tick) * segments[i].tempo

\* Seeded fault: the time up to the change is counted with the new tempo.
Recounted(segments, change) ==
  LET last == Newest(segments)
      new == [last EXCEPT ![change.what] = change.value, !.tick = change.at]
      next == [new EXCEPT !.at = last.at + (change.at - last.tick) * new.tempo]
  IN IF change.at = last.tick THEN Append(SubSeq(segments, 1, Len(segments) - 1), next) ELSE Append(segments, next)

\* push: a change that changes nothing adds nothing, one at the tick of the last
\* segment rewrites that segment.
WithChange(segments, change) ==
  LET last == Newest(segments)
      next == [last EXCEPT !.tick = change.at, !.at = SecondsAt(segments, change.at), ![change.what] = change.value]
  IN IF next.tempo = last.tempo /\ next.meter = last.meter THEN segments
     ELSE IF change.at = last.tick THEN [segments EXCEPT ![Len(segments)] = next]
     ELSE Append(segments, next)

\* build, over the changes of all the tracks in the order of their ticks.
TempoMap(file) ==
  LET all == Listed(file)
      metas == {i \in 1..Len(all) : all[i].what \in Metas}
      changes == Ordered(all, metas, [i \in 1..Len(all) |-> all[i].at])
      upTo[k \in 0..Len(changes)] ==
        IF k = 0 THEN <<FirstSegment>> ELSE WithChange(upTo[k - 1], changes[k])
  IN upTo[Len(changes)]

(***************************************************************************)
(* The schedule                                                            *)
(***************************************************************************)
Sample(time) == (time * Rate) \div Scale

Largest(S) == CHOOSE n \in S : \A m \in S : m <= n

\* parse_smf_playback and apply_render_preroll: the notes in order, each moved back by
\* the preroll, and the frames to render.  Any event of a track makes the song longer.
ScheduleOf(file, preroll) ==
  LET map == TempoMap(file)
      all == Listed(file)
      notes == {i \in 1..Len(all) : all[i].what \in Notes}
      sample == [i \in 1..Len(all) |-> Sample(SecondsAt(map, all[i].at))]
      shifted == [i \in 1..Len(all) |-> [track |-> all[i].track, index |-> all[i].index, at |-> sample[i] + preroll,
                                          on |-> all[i].what = "on"]]
  IN [events |-> Ordered(shifted, notes, sample),
      total |-> Largest({0} \cup {sample[i] : i \in 1..Len(all)}) + TailFrames + preroll,
      map |-> [i \in 1..Len(map) |-> [at |-> map[i].at, tempo |-> map[i].tempo, meter |-> map[i].meter]],
      origin |-> preroll]

(***************************************************************************)
(* The transport                                                           *)
(***************************************************************************)
NoTempo == 0 \* no tempo is told; as the tempo of a file it is an infinite one, which is invalid

\* Seeded fault: a full transport keeps what it has.
KeptFull(segments, change) ==
  IF change.tempo = NoTempo \/ Len(segments) = MaxSegments THEN segments ELSE Append(segments, change)

\* push: an invalid tempo and a step back are refused, what changes nothing adds nothing,
\* and at the limit the first segment goes.  No file has an invalid meter (midi.rs:262).
Pushed(segments, change) ==
  LET last == Newest(segments)
  IN IF change.tempo = NoTempo \/ change.at < last.at \/ (change.tempo = last.tempo /\ change.meter = last.meter) THEN segments
     ELSE IF change.at = last.at THEN [segments EXCEPT ![Len(segments)] = change]
     ELSE Append(IF Len(segments) = MaxSegments THEN Tail(segments) ELSE segments, change)

\* build_transport: none if the first tempo is invalid; else every segment is pushed at
\* once, and one that is refused is left out.
Transport(map) ==
  LET rest == Tail(map)
      upTo[k \in 0..Len(rest)] == IF k = 0 THEN <<map[1]>> ELSE Pushed(upTo[k - 1], rest[k])
  IN IF map[1].tempo = NoTempo THEN <<>> ELSE upTo[Len(rest)]

\* segment_at: the last segment that has begun, or the first there is.
TempoAt(transport, sample) ==
  LET begun == {i \in 1..Len(transport) : transport[i].at * Rate <= sample * Scale}
  IN IF transport = <<>> THEN NoTempo ELSE transport[IF begun = {} THEN 1 ELSE Largest(begun)].tempo

(***************************************************************************)
(* What a file means: the tempo in force at each tick, and the time that   *)
(* has gone by at a tick, tick for tick.                                   *)
(***************************************************************************)
TempoIn(file, tick) ==
  LET all == Listed(file)
      past == {i \in 1..Len(all) : all[i].what = "tempo" /\ all[i].at <= tick}
      latest == {i \in past : \A k \in past : all[k].at < all[i].at \/ (all[k].at = all[i].at /\ k <= i)}
  IN IF past = {} THEN DefaultTempo ELSE all[CHOOSE i \in latest : TRUE].value

LastTick(file) == Largest({0} \cup {Listed(file)[i].at : i \in 1..Len(Listed(file))})

TimeAt(file, tick) ==
  LET gone[k \in 0..tick] == IF k = 0 THEN 0 ELSE gone[k - 1] + TempoIn(file, k - 1)
  IN gone[tick]
=============================================================================
