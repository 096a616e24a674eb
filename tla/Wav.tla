--------------------------------- MODULE Wav ---------------------------------
(***************************************************************************)
(* What normalize_audio reads of a file: the gate on the upload's suffix   *)
(* and first bytes (_magic_matches, _detect_ext_by_magic), and the walk    *)
(* over the chunks of the WAV that ffmpeg wrote, which makes audio_hash,   *)
(* the key of the result cache (_sha256_wav_pcm).                          *)
(*                                                                         *)
(* Positions count bytes.  A hash is the content it was fed with.          *)
(***************************************************************************)
EXTENDS Integers, Sequences, FiniteSets, FiniteSetsExt

CONSTANTS MaxSize,      \* of a chunk's body
          MaxMeta       \* chunks beside the one with the sound

ASSUME WavAssumption == MaxSize \in Nat /\ MaxMeta \in Nat

VARIABLES
    step,       \* "none", "gated", "walking", "hashed", "refused"
    suffix,     \* of the upload's name
    head,       \* its first bytes
    chunks,     \* of the WAV behind the 12 bytes of its RIFF header; none: no WAV
    rest,       \* bytes that are missing at the end of the file
    pos,        \* fp.tell()
    hash        \* what the hash was fed with

wavVars == <<step, suffix, head, chunks, rest, pos, hash>>

AllowedExtensions == {"mp4", "mp3", "m4a", "wav", "flac"}

\* What the first four bytes, the next four and the last four can be.
Heads == [first : {"RIFF", "fLaC", "ID3", "sync", "other"},
          second : {"ftyp", "other"},
          third : {"WAVE", "other"}]

NoHead == [first |-> "other", second |-> "other", third |-> "other"]

\* No file yet.
WavIdle ==
    /\ step = "none"
    /\ suffix = "bin" /\ head = NoHead
    /\ chunks = <<>> /\ rest = 0
    /\ pos = 0 /\ hash = <<>>

-----------------------------------------------------------------------------
(* The gate *)

MagicMatches(h, ext) ==
    CASE ext = "wav" -> h.first = "RIFF" /\ h.third = "WAVE"
      [] ext = "flac" -> h.first = "fLaC"
      [] ext = "mp3" -> h.first \in {"ID3", "sync"}
      [] ext \in {"mp4", "m4a"} -> h.second = "ftyp"
      [] OTHER -> FALSE

\* Without the frames that MP3 files may begin with.
DetectExtById3(h) ==
    IF h.first = "RIFF" /\ h.third = "WAVE" THEN "wav"
    ELSE IF h.first = "fLaC" THEN "flac"
    ELSE IF h.first = "ID3" THEN "mp3"
    ELSE IF h.second = "ftyp" THEN "mp4" ELSE "none"

DetectExtByMagic(h) ==
    IF h.first = "RIFF" /\ h.third = "WAVE" THEN "wav"
    ELSE IF h.first = "fLaC" THEN "flac"
    ELSE IF h.first \in {"ID3", "sync"} THEN "mp3"
    ELSE IF h.second = "ftyp" THEN "mp4" ELSE "none"

\* The suffix an upload is taken for; an upload session's file is original.bin.
Accepts(h, ext) ==
    IF ext \in AllowedExtensions THEN MagicMatches(h, ext) ELSE DetectExtByMagic(h) # "none"

Gate ==
    /\ step = "none"
    /\ head' \in Heads
    /\ suffix' \in AllowedExtensions \cup {"bin"}
    /\ step' = IF Accepts(head', suffix') THEN "gated" ELSE "refused"
    /\ UNCHANGED <<chunks, rest, pos, hash>>

-----------------------------------------------------------------------------
(* The walk *)

Chunks == [id : {"LIST", "data"}, size : 0..MaxSize]

\* A body of odd size is followed by a byte of padding.
ChunkLength(c) == 8 + c.size + (c.size % 2)

\* Where the header of the RIFF file ends, and each chunk after it.
Ends(seq) ==
    LET end[k \in 0..Len(seq)] == IF k = 0 THEN 12 ELSE end[k - 1] + ChunkLength(seq[k])
    IN  end

Offset(seq, k) == Ends(seq)[k - 1]

FileEnd == Offset(chunks, Len(chunks) + 1) - rest

Sound(k) == [of |-> k, bytes |-> chunks[k].size]

\* ffmpeg writes metadata before the sound and behind it, or nothing the code takes
\* for a WAV; a file cut short ends within its last chunk or before it.
FfmpegWrites ==
    /\ step = "gated"
    /\ \E n \in 0..MaxMeta + 1 : \E seq \in [1..n -> Chunks] :
          /\ n > 0 => Cardinality({k \in 1..n : seq[k].id = "data"}) = 1
          /\ chunks' = seq
          /\ rest' \in IF n = 0 THEN {0} ELSE 0..ChunkLength(seq[n])
    /\ IF chunks' = <<>>
       THEN step' = "hashed" /\ hash' = <<"file">> /\ pos' = 0
       ELSE step' = "walking" /\ hash' = <<>> /\ pos' = 12
    /\ UNCHANGED <<suffix, head>>

\* Skips the body alone.
AfterBody(c) == pos + 8 + c.size

AfterChunk(c) == pos + ChunkLength(c)

\* Fewer than eight bytes are left.
WalkEnds ==
    /\ step = "walking" /\ pos + 8 > FileEnd
    /\ step' = "hashed"
    /\ UNCHANGED <<suffix, head, chunks, rest, pos, hash>>

\* The eight bytes at pos are a chunk's header, or they are none and say anything.
HeaderAt(p) ==
    IF \E k \in DOMAIN chunks : Offset(chunks, k) = p
    THEN {[at |-> k, id |-> chunks[k].id, size |-> chunks[k].size] :
            k \in {j \in DOMAIN chunks : Offset(chunks, j) = p}}
    ELSE [at : {0}, id : {"LIST", "data"}, size : 0..MaxSize]

WalkSkips ==
    /\ step = "walking" /\ pos + 8 <= FileEnd
    /\ \E c \in HeaderAt(pos) : c.id # "data" /\ pos' = AfterChunk(c)
    /\ UNCHANGED <<step, suffix, head, chunks, rest, hash>>

\* Reads the body, or what the file has of it.
WalkHashes ==
    /\ step = "walking" /\ pos + 8 <= FileEnd
    /\ \E c \in HeaderAt(pos) :
          /\ c.id = "data"
          /\ hash' = <<[of |-> c.at, bytes |-> Min({c.size, FileEnd - pos - 8})]>>
          /\ pos' = pos + 8 + Min({c.size, FileEnd - pos - 8})
    /\ step' = "hashed"
    /\ UNCHANGED <<suffix, head, chunks, rest>>

WavNext == Gate \/ FfmpegWrites \/ WalkEnds \/ WalkSkips \/ WalkHashes

WavSpec == WavIdle /\ [][WavNext]_wavVars

-----------------------------------------------------------------------------
(* Properties *)

\* A file that passes under its own suffix passes as original.bin too, and one that
\* passes as original.bin passes under the suffix it is taken for.
GateIsTheSameForBin ==
    /\ (step = "refused" /\ suffix = "bin") => \A ext \in AllowedExtensions : ~MagicMatches(head, ext)
    /\ (step = "gated" /\ suffix = "bin") => MagicMatches(head, DetectExtByMagic(head))

\* audio_hash is of the sound and of nothing else: metadata of any length before it
\* or behind it do not change it; of a file that is cut short it is what is left, the
\* padding lost first.
HashIsOfTheSound ==
    step = "hashed" /\ chunks # <<>> =>
      \E k \in DOMAIN chunks :
         LET lost == rest - (chunks[k].size % 2)
         IN  /\ chunks[k].id = "data"
             /\ k < Len(chunks) \/ lost <= 0 => hash = <<Sound(k)>>
             /\ k = Len(chunks) /\ lost > 0 =>
                   hash = IF lost > chunks[k].size THEN <<>>
                          ELSE <<[of |-> k, bytes |-> chunks[k].size - lost]>>

=============================================================================
