--------------------------- MODULE ClipboardWatcher ---------------------------
(***************************************************************************)
(* The goroutine that watches the OS clipboard (startClipboardWatcher in   *)
(* internal/server/server.go).                                             *)
(*                                                                         *)
(* A tick asks the platform's tools several times, for the formats, for    *)
(* the concealed mark and for the content, and anything may be copied      *)
(* between two of them.  Time is counted between the starts of two ticks;  *)
(* the two ages the watcher compares stop counting at their bounds.  A     *)
(* tick that was held up, by a tool or by s.mu, is followed by one that    *)
(* comes early.  A report is what the watcher does at its end: it updates  *)
(* the status, notifies the WatchHub and starts the push to the relay.     *)
(***************************************************************************)
EXTENDS Naturals, FiniteSets

CONSTANTS
  Text,        \* texts that may be copied
  Tiny,        \* those of under watchTinyTextMax bytes without white space
  Short,       \* those of under 4 bytes
  Image,       \* images that may be copied (of over 100 bytes)
  Item,        \* what may be on the clipboard
  Gap,         \* times between two ticks
  Debounce,    \* watchDebounce
  Throttle,    \* watchImageThrottle
  MaxFaults,   \* bound on the tools' failures
  None

ASSUME WatcherAssumption ==
  /\ Tiny \cup Short \subseteq Text
  /\ Text \cap Image = {}
  /\ None \notin Text \cup Image \cup Item
  /\ Item \subseteq [text : Text \cup {None}, image : Image \cup {None},
                     concealed : BOOLEAN]
  /\ Gap \subseteq Nat \ {0}
  /\ Debounce \in Nat /\ Throttle \in Nat /\ MaxFaults \in Nat

VARIABLES
  clip,          \* the OS clipboard
  enabled,       \* watchEnabled
  stop,          \* watcherStop is closed
  pc,            \* where the tick is
  formats,       \* what this tick's AvailableFormats returned
  potential,     \* this tick has seen the formats change
  lastFmtSig, lastTextHash, lastImgHash,
  sinceImg,      \* age of lastImgCheck
  sinceDetected, \* age of lastDetected
  faults,        \* failures of a tool so far
  reported,      \* history: everything reported so far
  repeats        \* history: reports since something was copied or the watcher enabled

memo    == <<lastFmtSig, lastTextHash, lastImgHash, sinceImg, sinceDetected>>
tick    == <<pc, formats, potential>>
history == <<reported, repeats>>
vars    == <<clip, enabled, stop, tick, memo, faults, history>>

\* AvailableFormats; the concealed mark is a format too.
Formats(item) ==
  {f \in {"text", "image", "concealed"} :
     \/ f = "text" /\ item.text # None
     \/ f = "image" /\ item.image # None
     \/ f = "concealed" /\ item.concealed}

MaxRepeats == 5   \* repeats counts no further

TypeOK ==
  /\ clip \in Item
  /\ enabled \in BOOLEAN /\ stop \in BOOLEAN /\ potential \in BOOLEAN
  /\ pc \in {"sleep", "conceal", "read", "text", "image", "ended"}
  /\ formats \subseteq {"text", "image", "concealed"}
  /\ lastFmtSig \subseteq {"text", "image", "concealed"}
  /\ lastTextHash \in (Text \ Short) \cup {None}
  /\ lastImgHash \in Image \cup {None}
  /\ sinceImg \in 0..(Throttle + 1) /\ sinceDetected \in 0..Debounce
  /\ faults \in 0..MaxFaults
  /\ reported \subseteq Text \cup Image
  /\ repeats \in 0..MaxRepeats

Init ==
  /\ clip \in Item
  /\ enabled \in BOOLEAN
  /\ stop = FALSE
  /\ pc = "sleep"
  /\ formats = {} /\ potential = FALSE
  /\ lastFmtSig = {} /\ lastTextHash = None /\ lastImgHash = None
  /\ sinceImg = Throttle + 1 /\ sinceDetected = Debounce
  /\ faults = 0
  /\ reported = {} /\ repeats = 0

-----------------------------------------------------------------------------
Least(a, b) == IF a < b THEN a ELSE b

\* A tool fails, times out or is missing.
Fault == faults < MaxFaults /\ faults' = faults + 1

Elapse(gap) ==
  /\ sinceImg' = Least(sinceImg + gap, Throttle + 1)
  /\ sinceDetected' = Least(sinceDetected + gap, Debounce)

\* The tick goes on with another call, or its variables go out of scope.
GoOn(next) == pc' = next /\ UNCHANGED formats

EndTick == pc' = "sleep" /\ formats' = {} /\ potential' = FALSE

\* A mistaken variant: a disabled watcher goes on before it looks at the channel.
StoppedIfEnabled ==
  /\ pc = "sleep"
  /\ stop
  /\ pc' = IF enabled THEN "ended" ELSE pc
  /\ UNCHANGED <<clip, enabled, stop, formats, potential, memo, faults, history>>

\* A tick finds the watcher stopped, ...
Stopped ==
  /\ pc = "sleep"
  /\ stop
  /\ pc' = "ended"
  /\ UNCHANGED <<clip, enabled, stop, formats, potential, memo, faults, history>>

\* ... or disabled: it forgets everything, ...
Disabled ==
  /\ pc = "sleep"
  /\ ~stop
  /\ ~enabled
  /\ lastFmtSig' = {} /\ lastTextHash' = None /\ lastImgHash' = None
  /\ sinceImg' = Throttle + 1 /\ sinceDetected' = Debounce
  /\ UNCHANGED <<clip, enabled, stop, tick, faults, history>>

\* ... or asks for the formats.
ReadFormats ==
  /\ pc = "sleep"
  /\ ~stop
  /\ enabled
  /\ \E gap \in Gap : Elapse(gap)
  /\ \/ formats' = Formats(clip) /\ pc' = "conceal" /\ UNCHANGED faults
     \/ Fault /\ UNCHANGED <<formats, pc>>
  /\ UNCHANGED <<clip, enabled, stop, potential, lastFmtSig, lastTextHash,
                 lastImgHash, history>>

\* The concealed filter and the debounce, which both take note of the formats.
Filter(concealed) ==
  /\ lastFmtSig' = formats
  /\ IF concealed \/ sinceDetected < Debounce
     THEN EndTick
     ELSE GoOn("read") /\ potential' = (formats # lastFmtSig)

\* When the detector fails everything passes.
CheckConcealed ==
  /\ pc = "conceal"
  /\ \/ Filter(clip.concealed) /\ UNCHANGED faults
     \/ Fault /\ Filter(FALSE)
  /\ UNCHANGED <<clip, enabled, stop, lastTextHash, lastImgHash, sinceImg,
                 sinceDetected, history>>

-----------------------------------------------------------------------------
\* The end of a tick that has read something: tiny texts are dropped, the rest
\* is reported.
Report(content) ==
  /\ EndTick
  /\ IF content \in Tiny
     THEN UNCHANGED <<sinceDetected, history>>
     ELSE /\ sinceDetected' = 0
          /\ reported' = reported \cup {content}
          /\ repeats' = Least(repeats + 1, MaxRepeats)

NoReport == EndTick /\ UNCHANGED <<sinceDetected, history>>

\* The tick asks for the text too, ...
TryText == GoOn("text") /\ UNCHANGED <<potential, sinceDetected, history>>

\* ... or, after a text that is not new, perhaps for the image.
TryImage ==
  IF "image" \in formats
  THEN GoOn("image") /\ UNCHANGED <<potential, sinceDetected, history>>
  ELSE NoReport

\* The formats have changed: ReadContent asks for an image, ...
ReadContent ==
  /\ pc = "read"
  /\ potential
  /\ \/ clip.image # None /\ Report(clip.image) /\ UNCHANGED faults
     \/ clip.image = None /\ TryText /\ UNCHANGED faults
     \/ Fault /\ (NoReport \/ TryText)
  /\ UNCHANGED <<clip, enabled, stop, lastFmtSig, lastTextHash, lastImgHash, sinceImg>>

\* ... and when there is none (a tool that fails may say so too) for the text.
\* Neither hash is updated.
ReadContentText ==
  /\ pc = "text"
  /\ \/ clip.text # None /\ Report(clip.text) /\ UNCHANGED faults
     \/ clip.text = None /\ NoReport /\ UNCHANGED faults
     \/ Fault /\ NoReport
  /\ UNCHANGED <<clip, enabled, stop, lastFmtSig, lastTextHash, lastImgHash, sinceImg>>

\* Mistaken variants: short texts are looked at, and the hash of a new text is
\* not kept.
ReadTextAny ==
  /\ pc = "read"
  /\ ~potential
  /\ IF "text" \in formats /\ clip.text \notin {None, lastTextHash}
     THEN lastTextHash' = clip.text /\ Report(clip.text)
     ELSE TryImage /\ UNCHANGED lastTextHash
  /\ UNCHANGED <<clip, enabled, stop, lastFmtSig, lastImgHash, sinceImg, faults>>

ReadTextForgets ==
  /\ pc = "read"
  /\ ~potential
  /\ IF "text" \in formats /\ clip.text \notin Short \cup {None, lastTextHash}
     THEN Report(clip.text)
     ELSE TryImage
  /\ UNCHANGED <<clip, enabled, stop, lastFmtSig, lastTextHash, lastImgHash, sinceImg, faults>>

\* They have not: is it another text?
ReadText ==
  /\ pc = "read"
  /\ ~potential
  /\ \/ /\ "text" \in formats
        /\ clip.text \notin Short \cup {None, lastTextHash}
        /\ lastTextHash' = clip.text
        /\ Report(clip.text)
        /\ UNCHANGED faults
     \/ /\ "text" \in formats => clip.text \in Short \cup {None, lastTextHash}
        /\ TryImage
        /\ UNCHANGED <<lastTextHash, faults>>
     \/ /\ "text" \in formats
        /\ Fault
        /\ TryImage
        /\ UNCHANGED lastTextHash
  /\ UNCHANGED <<clip, enabled, stop, lastFmtSig, lastImgHash, sinceImg>>

\* A mistaken variant: the time of the last check is set although none is made.
ReadImageNotesTime ==
  /\ pc = "image"
  /\ sinceImg' = 0
  /\ IF sinceImg > Throttle /\ clip.image \notin {None, lastImgHash}
     THEN lastImgHash' = clip.image /\ Report(clip.image)
     ELSE NoReport /\ UNCHANGED lastImgHash
  /\ UNCHANGED <<clip, enabled, stop, lastFmtSig, lastTextHash, faults>>

\* Or another image?  Not looked at in every tick.
ReadImage ==
  /\ pc = "image"
  /\ \/ /\ sinceImg <= Throttle
        /\ NoReport
        /\ UNCHANGED <<sinceImg, lastImgHash, faults>>
     \/ /\ sinceImg > Throttle
        /\ sinceImg' = 0
        /\ \/ /\ clip.image \notin {None, lastImgHash}
              /\ lastImgHash' = clip.image
              /\ Report(clip.image)
              /\ UNCHANGED faults
           \/ /\ clip.image \in {None, lastImgHash}
              /\ NoReport
              /\ UNCHANGED <<lastImgHash, faults>>
           \/ Fault /\ NoReport /\ UNCHANGED lastImgHash
  /\ UNCHANGED <<clip, enabled, stop, lastFmtSig, lastTextHash>>

-----------------------------------------------------------------------------
\* The user or a program copies something.
Copy ==
  /\ clip' \in Item \ {clip}
  /\ repeats' = 0
  /\ UNCHANGED <<enabled, stop, tick, memo, faults, reported>>

\* reloadConfig: a new channel in the place of one that may be closed.
Reload ==
  /\ enabled' \in BOOLEAN
  /\ stop' = FALSE
  /\ repeats' = 0
  /\ UNCHANGED <<clip, tick, memo, faults, reported>>

\* Shutdown closes the channel.
Shutdown ==
  /\ ~stop
  /\ stop' = TRUE
  /\ UNCHANGED <<clip, enabled, tick, memo, faults, history>>

Tick == Stopped \/ Disabled \/ ReadFormats \/ CheckConcealed \/ ReadContent
          \/ ReadContentText \/ ReadText \/ ReadImage

\* What happens once the goroutine has ended is left out.
Next == Tick \/ (pc # "ended" /\ (Copy \/ Reload \/ Shutdown))

Spec == Init /\ [][Next]_vars

\* The ticker goes on and each of the tools returns, at the latest after
\* watchCtxTimeout.
FairSpec == Spec /\ WF_vars(Tick)

-----------------------------------------------------------------------------
\* What stays on the clipboard is reported at most twice, once for its formats
\* and once for its content, or three times when it is a text and an image; and
\* once more when it was copied in the middle of a tick.
ReportsAreBounded == repeats <= IF clip.text # None /\ clip.image # None THEN 4 ELSE 3

Significant(item) == ({item.text, item.image} \ {None}) \ (Tiny \cup Short)

\* A text that is not tiny, or an image, is reported if it stays: not every
\* time it is copied, but at least once.
NewContentIsReported ==
  \A item \in Item : \A content \in Significant(item) :
    <>[](clip = item /\ enabled /\ pc # "ended") /\ ~item.concealed => <>(content \in reported)

\* After Shutdown the goroutine ends, also while the watcher is disabled,
\* unless a reload comes first.
WatcherStops == stop ~> pc = "ended" \/ ~stop
=============================================================================
