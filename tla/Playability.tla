------------------------------ MODULE Playability -----------------------------
(***************************************************************************)
(* What the planner's decisions are worth: videos whose bytes are known,   *)
(* the facts that ffprobe or yt-dlp's info.json report of them, what       *)
(* ffmpeg makes of a plan, and what a browser makes of the type hint.      *)
(***************************************************************************)
EXTENDS CompatPlanner

CONSTANT Pixels  \* the pixel formats that occur, out of PixelFormat

PixelFormat == {"8bit 4:2:0", "10bit", "4:2:2", "4:4:4"}
Codec == {"h264", "hevc", "vp8", "vp9", "av1", "mpeg2video"}
Audio == {"aac", "opus", "vorbis", "ac3", "silent"}
Container == {"mp4", "webm", "mkv", "avi", "mov"}

ASSUME PixelAssumption == Pixels \subseteq PixelFormat

\* What is in a file.
Stream == [codec : Codec, pixels : Pixels, interlaced : BOOLEAN, audio : Audio]

NoCopy == [codec |-> "none", pixels |-> "none", interlaced |-> FALSE, audio |-> "none"]

VARIABLES
  container, stream,  \* the master: its extension and what is in it
  facts,              \* its row: the codec columns
  compat              \* its compat copy: NoCopy, or what is in it
vars == <<container, stream, facts, compat>>

-------------------------------------------------------------------------------
(* The two vocabularies facts are reported in. *)

\* What ffprobe calls the profile, if it reports one.
ProbedProfile(s) ==
  {"none"} \cup
    IF s.codec # "h264" THEN {"Main"}
    ELSE CASE s.pixels = "8bit 4:2:0" -> {"Main", "High"}
           [] s.pixels = "10bit"      -> {"High 10", "High 10 Intra"}
           [] s.pixels = "4:2:2"      -> {"High 4:2:2"}
           [] s.pixels = "4:4:4"      -> {"High 4:4:4 Predictive"}

\* ProbeResult: ffprobe's names.
Ffprobe(s) ==
  [vcodec : {Bare(s.codec)},
   vprofile : ProbedProfile(s),
   acodec : {IF s.audio = "silent" THEN Absent ELSE Bare(s.audio)},
   field_order : IF s.interlaced THEN {"tt", "bb", "tb", "bt"}
                 ELSE {"none", "progressive"}]

\* The profile bytes of an H.264 stream: Baseline, Main, High; High 10; ...
ProfileBytes(pixels) ==
  CASE pixels = "8bit 4:2:0" -> {"42", "4d", "64"}
    [] pixels = "10bit"      -> {"6e"}
    [] pixels = "4:2:2"      -> {"7a"}
    [] pixels = "4:4:4"      -> {"f4"}

\* Mostly RFC 6381 strings, but bare names are met too.
DescribedVideo(s) ==
  CASE s.codec = "h264" ->
         {Rfc(n, b) : n \in {"avc1", "avc3"}, b \in ProfileBytes(s.pixels)}
           \cup {Bare("h264"), Bare("avc"), Bare("avc1")}
    [] s.codec = "hevc" -> {Rfc("hvc1", "other"), Rfc("hev1", "other")}
                             \cup {Bare("hevc"), Bare("h265"), Bare("hvc1"), Bare("hev1")}
    [] s.codec = "vp9"  -> {Rfc("vp09", "other"), Bare("vp9")}
    [] s.codec = "av1"  -> {Rfc("av01", "other"), Bare("av1")}
    [] OTHER            -> {Bare(s.codec)}

DescribedAudio(s) ==
  CASE s.audio = "silent" -> Bare("none")  \* yt-dlp's word for no track
    [] s.audio = "aac"    -> Rfc("mp4a", "other")
    [] OTHER              -> Bare(s.audio)

CodecFieldVerbatim(codec) == codec  \* mutant: "none" is a codec like any other

codec_field(codec) == IF codec = Bare("none") THEN Absent ELSE codec

\* read_info_json: yt-dlp's names, no profile and no field order.
InfoJson(s) ==
  [vcodec : {codec_field(v) : v \in DescribedVideo(s)},
   vprofile : {"none"},
   acodec : {codec_field(DescribedAudio(s))},
   field_order : {"none"}]

-------------------------------------------------------------------------------
(* ffmpeg and the player. *)

\* What derive_compat's command line makes of s.  No -pix_fmt is given, and
\* libx264 then keeps the depth and chroma of its input.
derive_compat(s, plan) ==
  [codec      |-> IF plan.video = "copy" THEN s.codec ELSE "h264",
   pixels     |-> s.pixels,
   interlaced |-> s.interlaced /\ plan.video # "deinterlace",
   audio      |-> IF s.audio = "silent" \/ plan.audio = "copy" THEN s.audio
                  ELSE "aac"]

\* A browser is the set of codecs it plays; all play H.264 and AAC.
Browser == {b \in SUBSET (Codec \cup Audio) : {"h264", "aac", "silent"} \subseteq b}

Plays(browser, s) ==
  /\ {s.codec, s.audio} \subseteq browser
  /\ s.codec = "h264" => s.pixels = "8bit 4:2:0"

\* The codec a token of the hint names.
Names(token) ==
  CASE token.name \in {"avc1", "avc3"}   -> "h264"
    [] token.name \in {"hvc1", "hev1"}   -> "hevc"
    [] token.name \in {"vp9", "vp09"}    -> "vp9"
    [] token.name = "av01"               -> "av1"
    [] token.name = "mp4a"               -> "aac"
    [] token.name \in {"vp8", "opus", "vorbis"} -> token.name
    [] OTHER                             -> "unknown"

Hint == native_source_type(container, facts.vcodec, facts.acodec)

\* canPlayType, asked of the hint.
Accepts(browser) ==
  /\ Hint.offered
  /\ Names(Hint.video) \in browser
  /\ Hint.audio = Absent \/ Names(Hint.audio) \in browser

\* videoSources: the typed native first, then the compat copy; with neither,
\* the native without a type.  NoCopy when no source is left.
Chosen(browser) ==
  IF Accepts(browser) THEN stream
  ELSE IF compat # NoCopy \/ Hint.offered THEN compat
  ELSE stream

-------------------------------------------------------------------------------
Verdict == decide(container, facts, compat # NoCopy)

TypeOK ==
  /\ container \in Container
  /\ stream \in Stream
  /\ facts \in Facts
  /\ compat = NoCopy \/ compat \in Stream

Init ==
  /\ container \in Container
  /\ stream \in Stream
  /\ facts \in Ffprobe(stream) \cup InfoJson(stream)
  /\ compat = NoCopy

\* The worker acts on the verdict (see Derivation for all it may run into).
Derive ==
  /\ Verdict.kind = "produce"
  /\ compat' = derive_compat(stream, Verdict)
  /\ UNCHANGED <<container, stream, facts>>

Spec == Init /\ [][Derive]_vars

-------------------------------------------------------------------------------
\* What every browser plays.
Universal(c, s) == c = "mp4" /\ \A b \in Browser : Plays(b, s)

Ordinary == stream.pixels = "8bit 4:2:0"

\* Nobody said what profile the video has: "assumed safe" (compat.rs).
ProfileUnreported == facts.vcodec.tail = "bare" /\ facts.vprofile = "none"

\* ffprobe did, by a name that profile_is_browser_safe does not know.
ProfileUnknown == facts.vprofile = "High 4:4:4 Predictive"

(* What decide leaves without a compat copy is what every browser plays and,
   of what some cannot play, only video that is unplayable by its pixel format
   alone, its profile being unreported or 4:4:4 under ffprobe's name: whichever
   vocabulary reported the codecs, whatever the container, codec and audio. *)
PassesThePlayable ==
  compat = NoCopy =>
    (Verdict = NotNeeded <=>
       \/ Universal(container, stream)
       \/ /\ Universal(container, [stream EXCEPT !.pixels = "8bit 4:2:0"])
          /\ ProfileUnreported \/ ProfileUnknown)

(* The copy ffmpeg makes from a plan is one that every browser plays: the
   "universal target" of the planner's documentation. *)
CompatIsUniversal == compat # NoCopy => Universal("mp4", compat)

(* The same of ordinary 8-bit 4:2:0 video: no combination of container, codec
   and audio leads decide to a plan whose result a browser cannot play. *)
OrdinaryCompatIsUniversal == Ordinary => CompatIsUniversal

(* The cheapest honest way: a stream the target already has is never
   re-encoded, in either vocabulary (the BluRay fast path). *)
SafeIsNeverReencoded ==
  [][/\ Ordinary /\ stream.codec = "h264" => Verdict.video = "copy"
     /\ stream.audio \in {"aac", "silent"} => Verdict.audio = "copy"]_vars

(* Once nothing is left to derive, every browser plays what it picks from the
   player's sources: native_source_type makes it skip a native file it cannot
   play, and never skip one that has no compat copy. *)
EveryBrowserPlays ==
  Verdict = NotNeeded => \A b \in Browser : Chosen(b) # NoCopy /\ Plays(b, Chosen(b))

(* The same of ordinary video whose sound the hint can name. *)
OrdinaryPlaysEverywhere ==
  Ordinary /\ stream.audio # "ac3" => EveryBrowserPlays
===============================================================================
