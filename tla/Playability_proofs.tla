--------------------------- MODULE Playability_proofs ---------------------------
(***************************************************************************)
(* The planner's decisions, proved of Playability whichever pixel formats  *)
(* occur: what the two vocabularies of codec facts say of a stream, and    *)
(* what decide, ffmpeg and the player make of that.                        *)
(***************************************************************************)
EXTENDS Playability, TLAPS

Reported(s) == Ffprobe(s) \cup InfoJson(s)

Produced == derive_compat(stream, Plan(facts))

PlanInv ==
  /\ container \in Container
  /\ stream \in Stream
  /\ facts \in Reported(stream)
  /\ compat # NoCopy => compat = Produced

-------------------------------------------------------------------------------
(* What is reported of a stream. *)

LEMMA DescribedH264 ==
  ASSUME NEW s, s.codec = "h264", s.pixels \in PixelFormat, NEW v \in DescribedVideo(s)
  PROVE  \/ \E n \in {"avc1", "avc3"}, b \in {"42", "4d", "64", "6e", "7a", "f4"} :
              /\ v = Rfc(n, b)
              /\ s.pixels = "8bit 4:2:0" <=> b \in {"42", "4d", "64"}
         \/ v \in {Bare("h264"), Bare("avc"), Bare("avc1")}
<1>1. DescribedVideo(s) =
        {Rfc(n, b) : n \in {"avc1", "avc3"}, b \in ProfileBytes(s.pixels)}
          \cup {Bare("h264"), Bare("avc"), Bare("avc1")}
  BY DEF DescribedVideo
<1>2. /\ ProfileBytes(s.pixels) \subseteq {"42", "4d", "64", "6e", "7a", "f4"}
      /\ \A b \in ProfileBytes(s.pixels) :
           s.pixels = "8bit 4:2:0" <=> b \in {"42", "4d", "64"}
  BY DEF PixelFormat, ProfileBytes
<1>3. CASE v \in {Bare("h264"), Bare("avc"), Bare("avc1")}
  BY <1>3
<1>4. CASE v \notin {Bare("h264"), Bare("avc"), Bare("avc1")}
  <2>1. PICK n \in {"avc1", "avc3"}, b \in ProfileBytes(s.pixels) : v = Rfc(n, b)
    BY <1>1, <1>4
  <2>2. b \in {"42", "4d", "64", "6e", "7a", "f4"}
    BY <1>2
  <2> QED
    BY <1>2, <2>1, <2>2
<1> QED
  BY <1>3, <1>4

LEMMA ReportedVideo ==
  ASSUME NEW s \in Stream, NEW f \in Reported(s)
  PROVE  /\ f.vcodec \in [name : VideoName, tail : Tail]
         /\ f.vprofile \in VideoProfile
         /\ is_h264(f.vcodec) <=> s.codec = "h264"
         /\ video_codec_token(f.vcodec) # Absent =>
              Names(video_codec_token(f.vcodec)) = s.codec
         /\ s.codec = "h264" => video_codec_token(f.vcodec) # Absent
<1> USE DEF Bare, Rfc, Absent
<1> DEFINE Good(v) == /\ v \in [name : VideoName, tail : Tail]
                      /\ is_h264(v) <=> s.codec = "h264"
                      /\ video_codec_token(v) # Absent =>
                           Names(video_codec_token(v)) = s.codec
                      /\ s.codec = "h264" => video_codec_token(v) # Absent
<1>1. s.codec \in Codec /\ s.pixels \in PixelFormat
  BY PixelAssumption DEF Stream
<1>2. CASE f \in Ffprobe(s)
  <2>1. f.vcodec = Bare(s.codec) /\ f.vprofile \in ProbedProfile(s)
    BY <1>2 DEF Ffprobe
  <2>2. f.vprofile \in VideoProfile
    BY <1>1, <2>1 DEF ProbedProfile, VideoProfile, PixelFormat
  <2>3. Good(Bare(s.codec))
    BY <1>1 DEF Codec, VideoName, Tail, is_h264, video_codec_token, Names
  <2> HIDE DEF Bare
  <2> QED
    BY <2>1, <2>2, <2>3
<1>3. CASE f \in InfoJson(s)
  <2>1. PICK v \in DescribedVideo(s) : f.vcodec = codec_field(v) /\ f.vprofile = "none"
    BY <1>3 DEF InfoJson
  <2>2. Good(v) /\ v # Bare("none")
    <3>1. CASE s.codec = "h264"
      <4>1. \/ \E n \in {"avc1", "avc3"}, b \in {"42", "4d", "64", "6e", "7a", "f4"} :
                 v = Rfc(n, b)
            \/ v \in {Bare("h264"), Bare("avc"), Bare("avc1")}
        <5> HIDE DEF Rfc, Bare
        <5> QED
          BY <1>1, <2>1, <3>1, DescribedH264
      <4> QED
        BY <3>1, <4>1 DEF VideoName, Tail, is_h264, video_codec_token, Names
    <3>2. CASE s.codec \in {"hevc", "vp9", "av1"}
      <4>1. /\ s.codec = "hevc" =>
                   v \in {Rfc("hvc1", "other"), Rfc("hev1", "other"),
                          Bare("hevc"), Bare("h265"), Bare("hvc1"), Bare("hev1")}
            /\ s.codec = "vp9" => v \in {Rfc("vp09", "other"), Bare("vp9")}
            /\ s.codec = "av1" => v \in {Rfc("av01", "other"), Bare("av1")}
        BY <2>1, <3>2 DEF DescribedVideo
      <4> QED
        BY <3>2, <4>1 DEF VideoName, Tail, is_h264, video_codec_token, Names
    <3>3. CASE s.codec \in {"vp8", "mpeg2video"}
      <4>1. v = Bare(s.codec)
        BY <2>1, <3>3 DEF DescribedVideo
      <4> QED
        BY <3>3, <4>1 DEF VideoName, Tail, is_h264, video_codec_token, Names
    <3> QED
      BY <1>1, <3>1, <3>2, <3>3 DEF Codec
  <2>3. f.vcodec = v
    BY <2>1, <2>2 DEF codec_field
  <2> QED
    BY <2>1, <2>2, <2>3 DEF VideoProfile
<1> QED
  BY <1>2, <1>3 DEF Reported

(* What the report says of the profile, and what it leaves open. *)
PassedOver(f) ==
  \/ f.vcodec.tail = "bare" /\ f.vprofile = "none"
  \/ f.vprofile = "High 4:4:4 Predictive"

(* Safe is what plain H.264 is reported as, and H.264 whose report is silent
   about the profile or calls it by a name the code does not know. *)
LEMMA ReportedSafety ==
  ASSUME NEW s \in Stream, NEW f \in Reported(s)
  PROVE  VideoSafe(f) <=>
           s.codec = "h264" /\ (s.pixels = "8bit 4:2:0" \/ PassedOver(f))
<1>1. s.codec \in Codec /\ s.pixels \in PixelFormat
  BY PixelAssumption DEF Stream
<1>2. is_h264(f.vcodec) <=> s.codec = "h264"
  BY ReportedVideo
<1>3. ASSUME s.codec = "h264"
      PROVE  VideoSafe(f) <=> s.pixels = "8bit 4:2:0" \/ PassedOver(f)
  <2>1. CASE f \in Ffprobe(s)
    <3>1. f.vcodec = Bare("h264") /\ f.vprofile \in ProbedProfile(s)
      BY <1>3, <2>1 DEF Ffprobe
    <3>2. f.vcodec.tail = "bare" /\ ~ rfc_profile_is_unsafe(f.vcodec)
      BY <3>1 DEF rfc_profile_is_unsafe, Bare
    <3>3. profile_is_browser_safe(f.vprofile) <=>
            \/ s.pixels = "8bit 4:2:0"
            \/ f.vprofile \in {"none", "High 4:4:4 Predictive"}
      BY <1>1, <1>3, <3>1 DEF ProbedProfile, PixelFormat, profile_is_browser_safe
    <3> QED
      BY <1>2, <1>3, <3>2, <3>3 DEF VideoSafe, PassedOver
  <2>2. CASE f \in InfoJson(s)
    <3>1. PICK v \in DescribedVideo(s) : f.vcodec = codec_field(v) /\ f.vprofile = "none"
      BY <2>2 DEF InfoJson
    <3>2. /\ v # Bare("none")
          /\ ~ rfc_profile_is_unsafe(v) <=> s.pixels = "8bit 4:2:0" \/ v.tail = "bare"
      <4>1. \/ \E n \in {"avc1", "avc3"}, b \in {"42", "4d", "64", "6e", "7a", "f4"} :
                 /\ v = Rfc(n, b)
                 /\ s.pixels = "8bit 4:2:0" <=> b \in {"42", "4d", "64"}
            \/ v \in {Bare("h264"), Bare("avc"), Bare("avc1")}
        BY <1>1, <1>3, <3>1, DescribedH264
      <4>2. CASE v \in {Bare("h264"), Bare("avc"), Bare("avc1")}
        <5>1. v.name # "none" /\ v.tail = "bare"
          BY <4>2 DEF Bare
        <5>2. v # Bare("none")
          BY <5>1 DEF Bare
        <5>3. ~ rfc_profile_is_unsafe(v)
          BY <5>1 DEF rfc_profile_is_unsafe
        <5> QED
          BY <5>1, <5>2, <5>3
      <4>3. ASSUME NEW n \in {"avc1", "avc3"},
                   NEW b \in {"42", "4d", "64", "6e", "7a", "f4"},
                   v = Rfc(n, b),
                   s.pixels = "8bit 4:2:0" <=> b \in {"42", "4d", "64"}
            PROVE  /\ v # Bare("none")
                   /\ ~ rfc_profile_is_unsafe(v) <=> s.pixels = "8bit 4:2:0" \/ v.tail = "bare"
        <5>1. v.name = n /\ v.tail = b
          BY <4>3 DEF Rfc
        <5>2. v # Bare("none")
          BY <5>1 DEF Bare
        <5>3. rfc_profile_is_unsafe(v) <=> b \in {"6e", "7a", "f4"}
          BY <5>1 DEF rfc_profile_is_unsafe
        <5> QED
          BY <4>3, <5>1, <5>2, <5>3
      <4> QED
        BY <4>1, <4>2, <4>3
    <3>3. f.vcodec = v
      BY <3>1, <3>2 DEF codec_field
    <3>4. profile_is_browser_safe(f.vprofile)
      BY <3>1 DEF profile_is_browser_safe
    <3> QED
      BY <1>2, <1>3, <3>1, <3>2, <3>3, <3>4 DEF VideoSafe, PassedOver
  <2> QED
    BY <2>1, <2>2 DEF Reported
<1> QED
  BY <1>2, <1>3 DEF VideoSafe

LEMMA ReportedAudio ==
  ASSUME NEW s \in Stream, NEW f \in Reported(s)
  PROVE  /\ f.acodec \in [name : AudioName, tail : Tail] \cup {Absent}
         /\ f.field_order \in FieldOrder
         /\ AudioSafe(f) <=> s.audio \in {"aac", "silent"}
         /\ audio_codec_token(f.acodec) # Absent =>
              Names(audio_codec_token(f.acodec)) = s.audio
         /\ audio_codec_token(f.acodec) = Absent => s.audio \in {"silent", "ac3"}
<1> USE DEF Bare, Rfc, Absent
<1>1. s.audio \in Audio
  BY DEF Stream
<1>2. f.field_order \in FieldOrder
  BY DEF Reported, Ffprobe, InfoJson, FieldOrder
<1>3. \/ f.acodec = Absent /\ s.audio = "silent"
      \/ f.acodec = Rfc("mp4a", "other") /\ s.audio = "aac"
      \/ f.acodec = Bare(s.audio) /\ s.audio \in {"aac", "opus", "vorbis", "ac3"}
  <2>1. CASE f \in Ffprobe(s)
    <3>1. f.acodec = IF s.audio = "silent" THEN Absent ELSE Bare(s.audio)
      BY <2>1 DEF Ffprobe
    <3> QED
      BY <1>1, <3>1 DEF Audio
  <2>2. CASE f \in InfoJson(s)
    <3>1. f.acodec = codec_field(DescribedAudio(s))
      BY <2>2 DEF InfoJson
    <3>2. CASE s.audio = "silent"
      BY <3>1, <3>2 DEF DescribedAudio, codec_field
    <3>3. CASE s.audio = "aac"
      <4>1. Rfc("mp4a", "other") # Bare("none")
        OBVIOUS
      <4> QED
        BY <3>1, <3>3, <4>1 DEF DescribedAudio, codec_field
    <3>4. CASE s.audio \in {"opus", "vorbis", "ac3"}
      <4>1. Bare(s.audio) # Bare("none")
        BY <3>4
      <4>2. DescribedAudio(s) = Bare(s.audio)
        BY <3>4 DEF DescribedAudio
      <4> QED
        BY <3>1, <3>4, <4>1, <4>2 DEF codec_field
    <3> QED
      BY <1>1, <3>2, <3>3, <3>4 DEF Audio
  <2> QED
    BY <2>1, <2>2 DEF Reported
<1> QED
  BY <1>2, <1>3 DEF AudioName, Tail, AudioSafe, is_aac, audio_codec_token, Names
-------------------------------------------------------------------------------
(* What decide makes of that, and what follows the decision. *)

(* A job is only ever taken with the plan of the facts. *)
LEMMA DecidesPlan ==
  ASSUME NEW c, NEW f, NEW has, decide(c, f, has).kind = "produce"
  PROVE  decide(c, f, has) = Plan(f)
BY DEF decide, NotNeeded, Unplannable

(* Without a copy, not needed is what is safe in an mp4. *)
LEMMA DecidesNotNeeded ==
  ASSUME NEW c, NEW f, f.vcodec # Absent
  PROVE  decide(c, f, FALSE) = NotNeeded <=>
           c = "mp4" /\ VideoSafe(f) /\ AudioSafe(f)
<1>1. Unplannable.kind # NotNeeded.kind /\ Plan(f).kind # NotNeeded.kind
  BY DEF Unplannable, NotNeeded, Plan
<1> HIDE DEF Unplannable, NotNeeded, Plan
<1> QED
  BY <1>1 DEF decide

(* The copy of a plan: a stream again, H.264 and AAC at most. *)
LEMMA ProducedIsTarget ==
  ASSUME NEW s \in Stream, NEW f \in Reported(s)
  PROVE  LET made == derive_compat(s, Plan(f))
         IN /\ made \in Stream
            /\ made.codec = "h264"
            /\ made.audio \in {"aac", "silent"}
            /\ made.pixels = s.pixels
<1>1. s.codec \in Codec /\ s.pixels \in Pixels /\ s.interlaced \in BOOLEAN /\ s.audio \in Audio
  BY DEF Stream
<1>2. VideoSafe(f) => s.codec = "h264"
  BY ReportedSafety
<1>3. AudioSafe(f) => s.audio \in {"aac", "silent"}
  BY ReportedAudio
<1>4. /\ Plan(f).video = "copy" => VideoSafe(f)
      /\ Plan(f).audio = "copy" => AudioSafe(f)
  BY DEF Plan
<1> QED
  BY <1>1, <1>2, <1>3, <1>4 DEF derive_compat, Stream, Codec, Audio

LEMMA StreamIsNoCopy == \A s \in Stream : s # NoCopy
BY DEF Stream, Codec, NoCopy

LEMMA ReportedIsThere == PlanInv => facts.vcodec # Absent
<1>1. Absent \notin [name : VideoName, tail : Tail]
  BY DEF Absent, VideoName
<1> QED
  BY <1>1, ReportedVideo DEF PlanInv

(* What every browser plays: there is one that plays nothing else. *)
LEMMA UniversalIsTarget ==
  ASSUME NEW c, NEW s, s.codec \in Codec, s.audio \in Audio
  PROVE  Universal(c, s) <=>
           /\ c = "mp4"
           /\ s.codec = "h264" /\ s.pixels = "8bit 4:2:0"
           /\ s.audio \in {"aac", "silent"}
<1>1. {"h264", "aac", "silent"} \in Browser
  BY DEF Browser, Codec, Audio
<1>2. ASSUME Universal(c, s)
      PROVE  /\ c = "mp4"
             /\ s.codec = "h264" /\ s.pixels = "8bit 4:2:0"
             /\ s.audio \in {"aac", "silent"}
  <2>1. Plays({"h264", "aac", "silent"}, s)
    BY <1>1, <1>2 DEF Universal
  <2>2. s.codec \in {"h264", "aac", "silent"} /\ s.audio \in {"h264", "aac", "silent"}
    BY <2>1 DEF Plays
  <2>3. s.codec = "h264" /\ s.audio \in {"aac", "silent"}
    BY <2>2 DEF Codec, Audio
  <2> QED
    BY <1>2, <2>1, <2>3 DEF Universal, Plays
<1>3. ASSUME c = "mp4", s.codec = "h264", s.pixels = "8bit 4:2:0",
             s.audio \in {"aac", "silent"}
      PROVE  Universal(c, s)
  BY <1>3 DEF Universal, Plays, Browser
<1> QED
  BY <1>2, <1>3

(* A browser that takes the hint plays what is in the file. *)
LEMMA AcceptedIsPlayed ==
  ASSUME PlanInv, Ordinary, stream.audio # "ac3", NEW b \in Browser, Accepts(b)
  PROVE  Plays(b, stream)
<1>1. /\ Hint.video = video_codec_token(facts.vcodec)
      /\ Hint.audio = audio_codec_token(facts.acodec)
      /\ Hint.video # Absent
  BY DEF Accepts, Hint, native_source_type, NoHint
<1>2. stream.codec \in b
  BY <1>1, ReportedVideo DEF PlanInv, Accepts
<1>3. stream.audio \in b
  <2>1. Hint.audio = Absent => stream.audio = "silent"
    BY <1>1, ReportedAudio DEF PlanInv
  <2>2. Hint.audio # Absent => stream.audio \in b
    BY <1>1, ReportedAudio DEF PlanInv, Accepts
  <2> QED
    BY <2>1, <2>2 DEF Browser
<1> QED
  BY <1>2, <1>3 DEF Plays, Ordinary

(* Every browser takes the hint of H.264 with AAC, or nothing, in an mp4. *)
LEMMA SafeIsAccepted ==
  ASSUME PlanInv, container = "mp4", stream.codec = "h264",
         stream.audio \in {"aac", "silent"}, NEW b \in Browser
  PROVE  Accepts(b)
<1>1. /\ video_codec_token(facts.vcodec) # Absent
      /\ Names(video_codec_token(facts.vcodec)) = "h264"
  BY ReportedVideo DEF PlanInv
<1>2. \/ audio_codec_token(facts.acodec) = Absent
      \/ Names(audio_codec_token(facts.acodec)) \in {"aac", "silent"}
  BY ReportedAudio DEF PlanInv
<1>3. /\ Hint.offered
      /\ Hint.video = video_codec_token(facts.vcodec)
      /\ Hint.audio = audio_codec_token(facts.acodec)
  BY <1>1 DEF Hint, native_source_type
<1> QED
  BY <1>1, <1>2, <1>3 DEF Accepts, Browser

-------------------------------------------------------------------------------
(* The invariant: the copy, if there is one, is that of the plan. *)

LEMMA PlanInvHolds == Spec => []PlanInv
<1>1. Init => PlanInv
  BY DEF Init, PlanInv, Reported
<1>2. PlanInv /\ [Derive]_vars => PlanInv'
  <2> SUFFICES ASSUME PlanInv, [Derive]_vars PROVE PlanInv'
    OBVIOUS
  <2>1. CASE Derive
    <3>1. Verdict = Plan(facts)
      BY <2>1, DecidesPlan DEF Derive, Verdict
    <3>2. compat' = Produced /\ UNCHANGED <<container, stream, facts>>
      BY <2>1, <3>1 DEF Derive, Produced
    <3> QED
      BY <3>2 DEF PlanInv, Produced, Reported
  <2>2. CASE UNCHANGED vars
    BY <2>2 DEF PlanInv, Produced, vars
  <2> QED
    BY <2>1, <2>2
<1> QED
  BY <1>1, <1>2, PTL DEF Spec

(* The type invariant of files, facts and copies, for whichever pixel formats
   occur: what either vocabulary reports is what the codec columns hold. *)
THEOREM PlannerTypes == Spec => []TypeOK
<1>1. PlanInv => TypeOK
  <2> SUFFICES ASSUME PlanInv PROVE TypeOK
    OBVIOUS
  <2>1. facts \in Facts
    <3>1. facts = [vcodec |-> facts.vcodec, vprofile |-> facts.vprofile,
                   acodec |-> facts.acodec, field_order |-> facts.field_order]
      BY DEF PlanInv, Reported, Ffprobe, InfoJson
    <3> QED
      BY <3>1, ReportedVideo, ReportedAudio DEF PlanInv, Facts
  <2>2. compat = NoCopy \/ compat \in Stream
    BY ProducedIsTarget DEF PlanInv, Produced
  <2> QED
    BY <2>1, <2>2 DEF PlanInv, TypeOK
<1> QED
  BY <1>1, PlanInvHolds, PTL

(* decide leaves without a copy what every browser plays and, of the rest, only
   video in the target's codecs whose profile it was not told or does not know. *)
THEOREM PassesPlayable == Spec => []PassesThePlayable
<1>1. PlanInv => PassesThePlayable
  <2> SUFFICES ASSUME PlanInv, compat = NoCopy
               PROVE  Verdict = NotNeeded <=>
                        \/ Universal(container, stream)
                        \/ /\ Universal(container, [stream EXCEPT !.pixels = "8bit 4:2:0"])
                           /\ ProfileUnreported \/ ProfileUnknown
    BY DEF PassesThePlayable
  <2> DEFINE plain == [stream EXCEPT !.pixels = "8bit 4:2:0"]
  <2>1. /\ plain.codec = stream.codec /\ plain.audio = stream.audio
        /\ plain.pixels = "8bit 4:2:0"
    BY DEF PlanInv, Stream
  <2>2. PassedOver(facts) <=> ProfileUnreported \/ ProfileUnknown
    BY DEF PassedOver, ProfileUnreported, ProfileUnknown
  <2>3. Verdict = NotNeeded <=> container = "mp4" /\ VideoSafe(facts) /\ AudioSafe(facts)
    BY ReportedIsThere, DecidesNotNeeded DEF Verdict
  <2>4. VideoSafe(facts) <=>
          stream.codec = "h264" /\ (stream.pixels = "8bit 4:2:0" \/ PassedOver(facts))
    BY ReportedSafety DEF PlanInv
  <2>5. AudioSafe(facts) <=> stream.audio \in {"aac", "silent"}
    BY ReportedAudio DEF PlanInv
  <2>6. Universal(container, stream) <=>
          /\ container = "mp4"
          /\ stream.codec = "h264" /\ stream.pixels = "8bit 4:2:0"
          /\ stream.audio \in {"aac", "silent"}
    BY UniversalIsTarget DEF PlanInv, Stream
  <2>7. Universal(container, plain) <=>
          /\ container = "mp4"
          /\ stream.codec = "h264"
          /\ stream.audio \in {"aac", "silent"}
    BY <2>1, UniversalIsTarget DEF PlanInv, Stream
  <2> QED
    BY <2>2, <2>3, <2>4, <2>5, <2>6, <2>7
<1> QED
  BY <1>1, PlanInvHolds, PTL

LEMMA OrdinaryCopyIsUniversal == PlanInv => OrdinaryCompatIsUniversal
BY ProducedIsTarget, UniversalIsTarget
   DEF Stream, PlanInv, Produced, OrdinaryCompatIsUniversal, CompatIsUniversal, Ordinary

(* The copy of ordinary 8-bit 4:2:0 video is one that every browser plays,
   whatever its container, codec and audio and whoever reported them. *)
THEOREM OrdinaryCopies == Spec => []OrdinaryCompatIsUniversal
BY OrdinaryCopyIsUniversal, PlanInvHolds, PTL

(* Once nothing is left to derive, every browser plays what it picks of an
   ordinary video: no hint promises too much, and none hides a file that has
   no copy. *)
THEOREM OrdinaryPlays == Spec => []OrdinaryPlaysEverywhere
<1>1. PlanInv => OrdinaryPlaysEverywhere
  <2> SUFFICES ASSUME PlanInv, Ordinary, stream.audio # "ac3", Verdict = NotNeeded,
                      NEW b \in Browser
               PROVE  Chosen(b) # NoCopy /\ Plays(b, Chosen(b))
    BY DEF OrdinaryPlaysEverywhere, EveryBrowserPlays
  <2>1. CASE Accepts(b)
    BY <2>1, AcceptedIsPlayed, StreamIsNoCopy DEF Chosen, PlanInv
  <2>2. CASE ~ Accepts(b)
    <3>1. compat # NoCopy
      <4> SUFFICES ASSUME compat = NoCopy PROVE FALSE
        OBVIOUS
      <4>1. container = "mp4" /\ VideoSafe(facts) /\ AudioSafe(facts)
        BY ReportedIsThere, DecidesNotNeeded DEF Verdict
      <4> QED
        BY <4>1, <2>2, ReportedSafety, ReportedAudio, SafeIsAccepted DEF PlanInv
    <3>2. Plays(b, compat)
      BY <3>1, OrdinaryCopyIsUniversal
         DEF OrdinaryCompatIsUniversal, CompatIsUniversal, Universal
    <3> QED
      BY <2>2, <3>1, <3>2 DEF Chosen
  <2> QED
    BY <2>1, <2>2
<1> QED
  BY <1>1, PlanInvHolds, PTL

(* A stream the target already has is never re-encoded, in either vocabulary
   (the BluRay fast path). *)
THEOREM SafeIsKept == Spec => SafeIsNeverReencoded
<1>1. PlanInv /\ [Derive]_vars
        => [/\ Ordinary /\ stream.codec = "h264" => Verdict.video = "copy"
            /\ stream.audio \in {"aac", "silent"} => Verdict.audio = "copy"]_vars
  <2> SUFFICES ASSUME PlanInv, Derive
               PROVE  /\ Ordinary /\ stream.codec = "h264" => Verdict.video = "copy"
                      /\ stream.audio \in {"aac", "silent"} => Verdict.audio = "copy"
    OBVIOUS
  <2>1. Verdict = Plan(facts)
    BY DecidesPlan DEF Derive, Verdict
  <2>2. Ordinary /\ stream.codec = "h264" => VideoSafe(facts)
    BY ReportedSafety DEF PlanInv, Ordinary
  <2>3. stream.audio \in {"aac", "silent"} => AudioSafe(facts)
    BY ReportedAudio DEF PlanInv
  <2> QED
    BY <2>1, <2>2, <2>3 DEF Plan
<1> QED
  BY <1>1, PlanInvHolds, PTL DEF Spec, SafeIsNeverReencoded
================================================================================
