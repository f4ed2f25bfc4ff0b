----------------------------- MODULE CompatPlanner ----------------------------
(***************************************************************************)
(* The pure decisions about playback: media/compat.rs decides from a       *)
(* video's codec facts whether a compat copy is needed and how to make it, *)
(* media/codecs.rs names the native file's codecs for the player.          *)
(*                                                                         *)
(* A codec string is a record: its name up to the first dot, and what      *)
(* follows the dot as far as the code looks at it -- the two hex digits of *)
(* an RFC 6381 profile (case is folded), "other", or "bare" for no dot.    *)
(***************************************************************************)

VideoName == {"h264", "avc", "avc1", "avc3", "h265", "hevc", "hvc1", "hev1",
              "vp8", "vp9", "vp09", "av1", "av01", "mpeg2video", "vc1"}
AudioName == {"aac", "mp4a", "opus", "vorbis", "ac3", "dts"}
Tail == {"bare", "42", "4d", "64", "6e", "7a", "f4", "other"}

Absent == [name |-> "absent", tail |-> "bare"]  \* Option::None

Bare(name) == [name |-> name, tail |-> "bare"]
Rfc(name, tail) == [name |-> name, tail |-> tail]

VideoProfile == {"none", "Main", "High", "High 10", "High 10 Intra",
                 "High 4:2:2", "High 4:4:4 Predictive"}
FieldOrder == {"none", "progressive", "tt", "bb", "tb", "bt"}

\* The codec columns of a row; each may be NULL.
Facts == [vcodec : [name : VideoName, tail : Tail] \cup {Absent},
          vprofile : VideoProfile,
          acodec : [name : AudioName, tail : Tail] \cup {Absent},
          field_order : FieldOrder]

\* ProbeResult::default(): probed, nothing usable.
NoFacts == [vcodec |-> Absent, vprofile |-> "none", acodec |-> Absent,
            field_order |-> "none"]

-------------------------------------------------------------------------------
(* compat.rs *)

is_h264(vcodec) ==
  \/ vcodec.name \in {"avc1", "avc3"}   \* starts_with: dotted or not
  \/ vcodec \in {Bare("h264"), Bare("avc")}

is_aac(acodec) == acodec = Bare("aac") \/ acodec.name = "mp4a"

is_interlaced(field_order) == field_order \in {"tt", "bb", "tb", "bt"}

RfcKnowsAsMuch(vcodec) ==  \* mutant: 4:4:4 unknown here too
  vcodec.tail \in {"6e", "7a"}

rfc_profile_is_unsafe(vcodec) == vcodec.tail \in {"6e", "7a", "f4"}

\* No "10" and no "4:2:2" in the name ffprobe gave the profile.
profile_is_browser_safe(vprofile) ==
  vprofile \notin {"High 10", "High 10 Intra", "High 4:2:2"}

VideoSafe(facts) ==
  /\ is_h264(facts.vcodec)
  /\ ~ rfc_profile_is_unsafe(facts.vcodec)
  /\ profile_is_browser_safe(facts.vprofile)

AudioMustBeAac(facts) ==  \* mutant: no audio is not safe audio
  is_aac(facts.acodec)

AudioSafe(facts) == facts.acodec = Absent \/ is_aac(facts.acodec)

NotNeeded == [kind |-> "not_needed"]
Unplannable == [kind |-> "unplannable"]

PlanCopiesAudio(facts) ==  \* mutant: audio that came with H.264 is kept
  [kind |-> "produce",
   video |-> IF VideoSafe(facts) THEN "copy" ELSE "transcode",
   audio |-> IF VideoSafe(facts) THEN "copy" ELSE "transcode"]

Plan(facts) ==
  [kind  |-> "produce",
   video |-> IF VideoSafe(facts) THEN "copy"
             ELSE IF is_interlaced(facts.field_order) THEN "deinterlace"
             ELSE "transcode",
   audio |-> IF AudioSafe(facts) THEN "copy" ELSE "transcode"]

decide(container, facts, has_compat) ==
  IF has_compat THEN NotNeeded
  ELSE IF facts.vcodec = Absent THEN Unplannable
  ELSE IF container = "mp4" /\ VideoSafe(facts) /\ AudioSafe(facts) THEN NotNeeded
  ELSE Plan(facts)

-------------------------------------------------------------------------------
(* codecs.rs.  A token is what the type hint calls the codec; Absent where
   the code returns None. *)

video_codec_token(vcodec) ==
  CASE vcodec.tail # "bare" -> vcodec
    [] vcodec.name \in {"vp8", "vp9"} -> vcodec
    [] vcodec.name = "av1" -> Rfc("av01", "other")
    [] vcodec.name \in {"h264", "avc", "avc1"} -> Rfc("avc1", "42")
    [] vcodec.name \in {"h265", "hevc", "hvc1", "hev1"} -> Rfc("hvc1", "other")
    [] OTHER -> Absent

AudioTokenOmitted(acodec) == Absent  \* mutant: the hint names the video alone

audio_codec_token(acodec) ==
  CASE acodec.tail # "bare" -> acodec
    [] acodec.name = "aac" -> Rfc("mp4a", "other")
    [] acodec.name \in {"opus", "vorbis"} -> acodec
    [] OTHER -> Absent

\* The hint of native_source_type, NoHint where it is None.
NoHint == [offered |-> FALSE]

native_source_type(ext, vcodec, acodec) ==
  IF ext \notin {"mp4", "webm"} \/ video_codec_token(vcodec) = Absent THEN NoHint
  ELSE [offered |-> TRUE,
        container |-> ext,
        video |-> video_codec_token(vcodec),
        audio |-> audio_codec_token(acodec)]
===============================================================================
