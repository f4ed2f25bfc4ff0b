----------------------------- MODULE MCDerivation -----------------------------
(* Instances of Derivation for TLC. *)
EXTENDS Derivation, TLC

Disc == [NoFacts EXCEPT !.vcodec = Bare("mpeg2video"), !.acodec = Bare("ac3")]
Clip == [NoFacts EXCEPT !.vcodec = Rfc("avc1", "64"), !.acodec = Rfc("mp4a", "other")]
Probed == [NoFacts EXCEPT !.vcodec = Bare("h264"), !.acodec = Bare("aac")]

OneMaster == {"film.mp4"}
TwoMasters == {"film.mp4", "rip.mkv"}

Stems == {"film", "rip"}
OneStem == {"film"}
StemOfMaster == [m \in Master |-> IF m = "rip.mkv" THEN "rip" ELSE "film"]
ContainerOfMaster == [m \in Master |-> IF m = "film.mp4" THEN "mp4" ELSE "mkv"]

\* Takes of a disc title, a clip that plays as it is, an unprobeable file.
OneTake == {"take 1"}
Takes == {"take 1", "take 2"}
Films == {"take 1", "plays"}
Three == {"take 1", "plays", "broken"}
StampOfContent == [c \in Content |->
  CASE c = "take 1" -> 1 [] c = "take 2" -> 2 [] c = "plays" -> 3 [] OTHER -> 4]
ProbeOfContent == [c \in Content |->
  CASE c \in Takes -> Disc [] c = "plays" -> Probed [] OTHER -> NoFacts]

\* What the worker's staging asks of ffmpeg, and the part of it ffmpeg has.
Staging == {"mp4", "jpg", "part"}
KnownFormats == {"mp4", "jpg"}

NoInfo == {NoFacts}
SomeInfo == {NoFacts, Clip}
===============================================================================
