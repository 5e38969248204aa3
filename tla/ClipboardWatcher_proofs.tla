------------------------ MODULE ClipboardWatcher_proofs ------------------------
(***************************************************************************)
(* What holds of the clipboard watcher for any items, any times between    *)
(* ticks, any debounce and throttle and any number of failing tools.       *)
(***************************************************************************)
EXTENDS ClipboardWatcher, TLAPS

One(b) == IF b THEN 1 ELSE 0

\* A tick is under way.
InTick == One(pc \in {"conceal", "read", "text", "image"})

\* Reports that may still come of what is on the clipboard: one because the formats this
\* tick has seen are new, ...
DueNow == One(\/ pc = "conceal" /\ formats # lastFmtSig
              \/ pc \in {"read", "image"} /\ potential
              \/ pc = "text")

\* ... one because those a later tick will see are, if this tick's are of an earlier item, ...
DueLater ==
  One(IF pc = "conceal" THEN formats # Formats(clip) ELSE lastFmtSig # Formats(clip))

\* ... and one for each content whose hash is not kept yet.
DueText  == One(clip.text # None /\ lastTextHash # clip.text)
DueImage == One(clip.image # None /\ lastImgHash # clip.image)

HasText  == One(clip.text # None)
HasImage == One(clip.image # None)

\* An enabled watcher reports what is due; a disabled one ends its tick.
Budget ==
  /\ enabled => repeats + DueNow + DueLater + DueText + DueImage <= 2 + HasText + HasImage
  /\ ~enabled => repeats + InTick <= 1

IInv == TypeOK /\ Budget

-----------------------------------------------------------------------------
(* What is due are ones and zeros. *)
LEMMA Ones ==
  /\ DueNow \in 0..1 /\ DueLater \in 0..1 /\ DueText \in 0..1 /\ DueImage \in 0..1
  /\ HasText \in 0..1 /\ HasImage \in 0..1 /\ InTick \in 0..1
  /\ DueText <= HasText /\ DueImage <= HasImage
BY DEF One, InTick, DueNow, DueLater, DueText, DueImage, HasText, HasImage

LEMMA OnesNext ==
  /\ DueNow' \in 0..1 /\ DueLater' \in 0..1 /\ DueText' \in 0..1 /\ DueImage' \in 0..1
  /\ HasText' \in 0..1 /\ HasImage' \in 0..1 /\ InTick' \in 0..1
  /\ DueText' <= HasText' /\ DueImage' <= HasImage'
BY DEF One, InTick, DueNow, DueLater, DueText, DueImage, HasText, HasImage

LEMMA ItemIs ==
  ASSUME NEW item \in Item
  PROVE  /\ item.text \in Text \cup {None} /\ item.image \in Image \cup {None}
         /\ item.concealed \in BOOLEAN /\ item # None
         /\ Formats(item) \subseteq {"text", "image", "concealed"}
BY WatcherAssumption DEF Formats

LEMMA Capped == \A n \in 0..MaxRepeats : Least(n + 1, MaxRepeats) \in 0..MaxRepeats
                                         /\ Least(n + 1, MaxRepeats) <= n + 1
BY DEF Least, MaxRepeats

-----------------------------------------------------------------------------
(* Ends of ticks. *)

\* Nothing more comes of a tick that has ended.
LEMMA Ended ==
  ASSUME EndTick
  PROVE  /\ DueNow' = 0 /\ InTick' = 0
         /\ pc' = "sleep" /\ formats' = {} /\ potential' = FALSE
BY DEF EndTick, DueNow, InTick, One

\* A report of what is on the clipboard is one.
LEMMA Reports ==
  ASSUME TypeOK, NEW content \in Text \cup Image, Report(content)
  PROVE  /\ EndTick /\ sinceDetected' \in 0..Debounce
         /\ reported' \subseteq Text \cup Image
         /\ repeats' \in 0..MaxRepeats /\ repeats' <= repeats + 1
<1>1. repeats \in 0..MaxRepeats /\ sinceDetected \in 0..Debounce
      /\ reported \subseteq Text \cup Image
  BY DEF TypeOK
<1>2. CASE content \in Tiny
  BY <1>1, <1>2 DEF Report, history, MaxRepeats
<1>3. CASE content \notin Tiny
  <2>1. EndTick /\ sinceDetected' = 0
        /\ reported' = reported \cup {content} /\ repeats' = Least(repeats + 1, MaxRepeats)
    BY <1>3 DEF Report
  <2>2. sinceDetected' \in 0..Debounce
    BY <2>1, WatcherAssumption
  <2> QED
    BY <1>1, <2>1, <2>2, Capped
<1> QED
  BY <1>2, <1>3

LEMMA NoReports ==
  ASSUME TypeOK, NoReport
  PROVE  /\ EndTick /\ sinceDetected' \in 0..Debounce
         /\ reported' \subseteq Text \cup Image
         /\ repeats' = repeats /\ repeats' \in 0..MaxRepeats
BY DEF NoReport, history, TypeOK

\* The budget of a step that leaves the clipboard and enabled alone, with the next values
\* named so that they can be added up.
LEMMA Keeps ==
  ASSUME TypeOK, Budget, clip' = clip, enabled' = enabled,
         NEW r \in Nat, NEW n \in 0..1, NEW l \in 0..1, NEW t \in 0..1, NEW i \in 0..1,
         NEW k \in 0..1,
         repeats' = r, DueNow' = n, DueLater' = l, DueText' = t, DueImage' = i, InTick' = k,
         r + n + l + t + i <= repeats + DueNow + DueLater + DueText + DueImage,
         r + k <= repeats + InTick
  PROVE  Budget'
<1>1. repeats \in Nat /\ HasText' = HasText /\ HasImage' = HasImage
  BY DEF TypeOK, MaxRepeats, HasText, HasImage, One
<1>2. enabled => repeats + DueNow + DueLater + DueText + DueImage <= 2 + HasText + HasImage
  BY DEF Budget
<1>3. ~enabled => repeats + InTick <= 1
  BY DEF Budget
<1>4. enabled => repeats' + DueNow' + DueLater' + DueText' + DueImage' <= 2 + HasText + HasImage
  BY <1>1, <1>2, Ones
<1>5. ~enabled => repeats' + InTick' <= 1
  BY <1>1, <1>3, Ones
<1> QED
  BY <1>1, <1>4, <1>5 DEF Budget

\* After a Copy or a Reload no report has been counted.
LEMMA BudgetFull ==
  ASSUME repeats' = 0
  PROVE  Budget'
<1>1. PICK n \in 0..1, l \in 0..1, t \in 0..1, i \in 0..1, k \in 0..1, ht \in 0..1, hi \in 0..1 :
        /\ DueNow' = n /\ DueLater' = l /\ DueText' = t /\ DueImage' = i /\ InTick' = k
        /\ HasText' = ht /\ HasImage' = hi /\ t <= ht /\ i <= hi
  BY OnesNext
<1>2. 0 + n + l + t + i <= 2 + ht + hi /\ 0 + k <= 1
  BY <1>1
<1> QED
  BY <1>1, <1>2 DEF Budget

\* A tick that ends has reported nothing, or what was due.
LEMMA EndKeepsBudget ==
  ASSUME TypeOK, Budget, EndTick, InTick = 1, clip' = clip, enabled' = enabled,
         repeats' \in 0..MaxRepeats, repeats' <= repeats + 1,
         DueLater' = DueLater, DueText' <= DueText, DueImage' <= DueImage,
         repeats' = repeats \/ DueNow = 1 \/ DueText' < DueText \/ DueImage' < DueImage
  PROVE  Budget'
<1>1. DueNow' = 0 /\ InTick' = 0
  BY Ended
<1>2. PICK r \in Nat, t \in 0..1, i \in 0..1 : repeats' = r /\ DueText' = t /\ DueImage' = i
  BY OnesNext DEF MaxRepeats
<1>3. repeats \in Nat
  BY DEF TypeOK, MaxRepeats
<1>4. DueLater \in 0..1
  BY Ones
<1>5. r + 0 + DueLater + t + i <= repeats + DueNow + DueLater + DueText + DueImage
  BY <1>2, <1>3, Ones
<1>6. r + 0 <= repeats + InTick
  BY <1>2, <1>3
<1> QED
  BY <1>1, <1>2, <1>4, <1>5, <1>6, Keeps

-----------------------------------------------------------------------------
(* One lemma per action. *)

LEMMA InitInv == Init => IInv
<1> SUFFICES ASSUME Init PROVE IInv
  OBVIOUS
<1>1. TypeOK
  <2>1. sinceImg \in 0..(Throttle + 1) /\ sinceDetected \in 0..Debounce
        /\ faults \in 0..MaxFaults /\ repeats \in 0..MaxRepeats
    BY WatcherAssumption DEF Init, MaxRepeats
  <2> QED
    BY <2>1 DEF Init, TypeOK
<1>2. repeats = 0 /\ InTick = 0 /\ DueNow = 0
  BY DEF Init, InTick, DueNow, One
<1>3. Budget
  BY <1>2, Ones DEF Budget
<1> QED
  BY <1>1, <1>3 DEF Init, IInv

\* A stopped watcher's tick, and a disabled one's, which forgets what it has seen.
LEMMA StoppedInv == IInv /\ Stopped => IInv'
<1> SUFFICES ASSUME IInv, Stopped PROVE IInv'
  OBVIOUS
<1>1. pc' = "ended" /\ pc = "sleep"
      /\ UNCHANGED <<clip, enabled, stop, formats, potential, memo, faults, history>>
  BY DEF Stopped
<1>2. TypeOK'
  BY <1>1 DEF IInv, TypeOK, memo, history
<1>3. DueNow' = DueNow /\ DueLater' = DueLater /\ DueText' = DueText /\ DueImage' = DueImage
      /\ HasText' = HasText /\ HasImage' = HasImage /\ InTick' = InTick
  BY <1>1 DEF DueNow, DueLater, DueText, DueImage, HasText, HasImage, InTick, One, memo
<1>4. Budget'
  BY <1>1, <1>3 DEF IInv, Budget, history
<1> QED
  BY <1>2, <1>4 DEF IInv

LEMMA DisabledInv == IInv /\ Disabled => IInv'
<1> SUFFICES ASSUME IInv, Disabled PROVE IInv'
  OBVIOUS
<1>1. /\ pc = "sleep" /\ ~enabled
      /\ lastFmtSig' = {} /\ lastTextHash' = None /\ lastImgHash' = None
      /\ sinceImg' = Throttle + 1 /\ sinceDetected' = Debounce
      /\ UNCHANGED <<clip, enabled, stop, tick, faults, history>>
  BY DEF Disabled
<1>2. TypeOK'
  BY <1>1, WatcherAssumption DEF IInv, TypeOK, tick, history
<1>3. Budget'
  BY <1>1 DEF IInv, Budget, tick, history, InTick, One
<1> QED
  BY <1>2, <1>3 DEF IInv

\* ReadFormats: from now on the formats are those of the clipboard.
LEMMA ReadFormatsInv == IInv /\ ReadFormats => IInv'
<1> SUFFICES ASSUME IInv, ReadFormats PROVE IInv'
  OBVIOUS
<1>1. /\ pc = "sleep" /\ enabled
      /\ UNCHANGED <<clip, enabled, stop, potential, lastFmtSig, lastTextHash,
                     lastImgHash, history>>
      /\ \/ formats' = Formats(clip) /\ pc' = "conceal" /\ faults' = faults
         \/ Fault /\ formats' = formats /\ pc' = pc
  BY DEF ReadFormats
<1>2. sinceImg' \in 0..(Throttle + 1) /\ sinceDetected' \in 0..Debounce
  <2>1. PICK gap \in Gap : Elapse(gap)
    BY DEF ReadFormats
  <2> QED
    BY <2>1, WatcherAssumption DEF Elapse, Least, IInv, TypeOK
<1>3. faults' \in 0..MaxFaults
  BY <1>1, WatcherAssumption DEF Fault, IInv, TypeOK
<1>4. TypeOK'
  BY <1>1, <1>2, <1>3, ItemIs DEF IInv, TypeOK, history
<1>6. DueText' = DueText /\ DueImage' = DueImage /\ HasText' = HasText /\ HasImage' = HasImage
  BY <1>1 DEF DueText, DueImage, HasText, HasImage
<1>7. /\ DueNow = 0 /\ InTick = 0
      /\ \/ DueNow' = DueLater /\ DueLater' = 0
         \/ DueNow' = 0 /\ DueLater' = DueLater
  BY <1>1 DEF DueNow, DueLater, InTick, One
<1>8. Budget'
  <2>1. repeats' = repeats /\ repeats \in Nat /\ enabled' /\ enabled
    BY <1>1 DEF history, IInv, TypeOK, MaxRepeats
  <2>2. repeats + DueNow + DueLater + DueText + DueImage <= 2 + HasText + HasImage
    BY <2>1 DEF IInv, Budget
  <2>3. repeats + DueLater + DueText + DueImage <= 2 + HasText + HasImage
    BY <1>7, <2>1, <2>2, Ones
  <2>4. repeats' + DueNow' + DueLater' + DueText' + DueImage' <= 2 + HasText + HasImage
    BY <1>6, <1>7, <2>1, <2>3, Ones
  <2> QED
    BY <1>6, <2>1, <2>4 DEF Budget
<1> QED
  BY <1>4, <1>8 DEF IInv

\* CheckConcealed: whatever it decides, the formats of this tick are now the last ones.
LEMMA CheckConcealedInv == IInv /\ CheckConcealed => IInv'
<1> SUFFICES ASSUME IInv, CheckConcealed PROVE IInv'
  OBVIOUS
<1>1. /\ pc = "conceal"
      /\ UNCHANGED <<clip, enabled, stop, lastTextHash, lastImgHash, sinceImg, sinceDetected,
                     history>>
      /\ lastFmtSig' = formats
  BY DEF CheckConcealed, Filter
<1>2. \/ EndTick
      \/ pc' = "read" /\ formats' = formats /\ potential' = (formats # lastFmtSig)
  BY DEF CheckConcealed, Filter, GoOn
<1>3. clip \in Item /\ faults' \in 0..MaxFaults
  <2>1. faults \in 0..MaxFaults /\ MaxFaults \in Nat
    BY WatcherAssumption DEF IInv, TypeOK
  <2>2. faults' = faults \/ (faults < MaxFaults /\ faults' = faults + 1)
    BY DEF CheckConcealed, Fault
  <2> QED
    BY <2>1, <2>2 DEF IInv, TypeOK
<1>4. TypeOK'
  <2>1. formats' \subseteq {"text", "image", "concealed"}
        /\ potential' \in BOOLEAN /\ pc' \in {"sleep", "read"}
    BY <1>2, <1>3 DEF EndTick, IInv, TypeOK
  <2> QED
    BY <1>1, <1>3, <2>1 DEF IInv, TypeOK, history
<1>6. DueText' = DueText /\ DueImage' = DueImage /\ HasText' = HasText /\ HasImage' = HasImage
  BY <1>1 DEF DueText, DueImage, HasText, HasImage
<1>7. DueNow' \in {0, DueNow} /\ DueLater' = DueLater /\ InTick' \in {0, 1} /\ InTick = 1
  <2>1. DueLater' = DueLater
    BY <1>1, <1>2 DEF DueLater, EndTick, One
  <2>2. InTick = 1 /\ InTick' \in {0, 1}
    BY <1>1 DEF InTick, One
  <2>3. CASE EndTick
    BY <2>1, <2>2, <2>3, Ended
  <2>4. CASE pc' = "read" /\ potential' = (formats # lastFmtSig)
    <3>1. DueNow' = DueNow
      BY <1>1, <2>4 DEF DueNow, One
    <3> QED
      BY <2>1, <2>2, <3>1
  <2> QED
    BY <1>2, <2>3, <2>4
<1>8. Budget'
  <2>1. repeats' = repeats /\ repeats \in Nat
    BY <1>1 DEF history, IInv, TypeOK, MaxRepeats
  <2>2. PICK n \in 0..1, k \in 0..1 : DueNow' = n /\ InTick' = k /\ n <= DueNow
    BY <1>7, Ones
  <2>3. /\ repeats + n + DueLater + DueText + DueImage
             <= repeats + DueNow + DueLater + DueText + DueImage
        /\ repeats + k <= repeats + InTick
    BY <1>7, <2>1, <2>2, Ones
  <2>4. DueLater \in 0..1 /\ DueText \in 0..1 /\ DueImage \in 0..1
    BY Ones
  <2> QED
    BY <1>1, <1>6, <1>7, <2>1, <2>2, <2>3, <2>4, Keeps DEF IInv
<1> QED
  BY <1>4, <1>8 DEF IInv

\* The report of new formats, or none although it was due.
LEMMA FormatsReported ==
  ASSUME IInv, InTick = 1, DueNow = 1, faults' \in 0..MaxFaults,
         UNCHANGED <<clip, enabled, stop, lastFmtSig, lastTextHash, lastImgHash, sinceImg>>,
         pc # "conceal",
         (\E content \in Text \cup Image : Report(content)) \/ NoReport
  PROVE  IInv'
<1>1. TypeOK /\ Budget
  BY DEF IInv
<1>2. /\ EndTick /\ sinceDetected' \in 0..Debounce
      /\ reported' \subseteq Text \cup Image
      /\ repeats' \in 0..MaxRepeats /\ repeats' <= repeats + 1
  <2>1. repeats \in Nat
    BY <1>1 DEF TypeOK, MaxRepeats
  <2> QED
    BY <1>1, <2>1, Reports, NoReports
<1>3. TypeOK'
  BY <1>1, <1>2, Ended DEF TypeOK
<1>4. DueLater' = DueLater /\ DueText' = DueText /\ DueImage' = DueImage
  <2>1. pc' # "conceal" /\ pc # "conceal"
    BY <1>2, Ended
  <2> QED BY <2>1 DEF DueLater, DueText, DueImage
<1>5. DueText \in 0..1 /\ DueImage \in 0..1
  BY Ones
<1>6. Budget'
  BY <1>1, <1>2, <1>4, <1>5, EndKeepsBudget
<1> QED
  BY <1>3, <1>6 DEF IInv

\* ReadContent: the report of new formats, or the tick goes on with the text.
LEMMA ReadContentInv == IInv /\ ReadContent => IInv'
<1> SUFFICES ASSUME IInv, ReadContent PROVE IInv'
  OBVIOUS
<1>1. /\ pc = "read" /\ potential
      /\ UNCHANGED <<clip, enabled, stop, lastFmtSig, lastTextHash, lastImgHash, sinceImg>>
  BY DEF ReadContent
<1>2. TypeOK /\ Budget /\ clip \in Item
  BY DEF IInv, TypeOK
<1>3. \/ \E content \in Text \cup Image : Report(content)
      \/ NoReport
      \/ TryText
  BY <1>2, ItemIs DEF ReadContent
<1>4. faults' \in 0..MaxFaults
  <2>1. faults \in 0..MaxFaults /\ MaxFaults \in Nat
    BY <1>2, WatcherAssumption DEF TypeOK
  <2>2. faults' = faults \/ (faults < MaxFaults /\ faults' = faults + 1)
    BY DEF ReadContent, Fault
  <2> QED
    BY <2>1, <2>2
<1>5. InTick = 1 /\ DueNow = 1
  BY <1>1 DEF InTick, DueNow, One
<1>6. CASE TryText
  <2>1. pc' = "text" /\ formats' = formats
        /\ UNCHANGED <<potential, sinceDetected, reported, repeats>>
    BY <1>6 DEF TryText, GoOn, history
  <2>2. TypeOK'
    BY <1>1, <1>2, <1>4, <2>1 DEF TypeOK
  <2>3. /\ DueNow' = DueNow /\ DueLater' = DueLater /\ DueText' = DueText
        /\ DueImage' = DueImage /\ InTick' = InTick
        /\ HasText' = HasText /\ HasImage' = HasImage
    BY <1>1, <2>1 DEF DueNow, DueLater, DueText, DueImage, HasText, HasImage, InTick, One
  <2>4. Budget'
    BY <1>1, <1>2, <2>1, <2>3 DEF Budget
  <2> QED
    BY <2>2, <2>4 DEF IInv
<1> QED
  BY <1>1, <1>3, <1>4, <1>5, <1>6, FormatsReported

\* ReadContentText: the report of new formats.
LEMMA ReadContentTextInv == IInv /\ ReadContentText => IInv'
<1> SUFFICES ASSUME IInv, ReadContentText PROVE IInv'
  OBVIOUS
<1>1. /\ pc = "text"
      /\ UNCHANGED <<clip, enabled, stop, lastFmtSig, lastTextHash, lastImgHash, sinceImg>>
  BY DEF ReadContentText
<1>2. TypeOK /\ clip \in Item
  BY DEF IInv, TypeOK
<1>3. (\E content \in Text \cup Image : Report(content)) \/ NoReport
  BY <1>2, ItemIs DEF ReadContentText
<1>4. faults' \in 0..MaxFaults
  <2>1. faults \in 0..MaxFaults /\ MaxFaults \in Nat
    BY <1>2, WatcherAssumption DEF TypeOK
  <2>2. faults' = faults \/ (faults < MaxFaults /\ faults' = faults + 1)
    BY DEF ReadContentText, Fault
  <2> QED
    BY <2>1, <2>2
<1>5. InTick = 1 /\ DueNow = 1
  BY <1>1 DEF InTick, DueNow, One
<1> QED
  BY <1>1, <1>3, <1>4, <1>5, FormatsReported

\* ReadText: the report of a text whose hash was not kept, or the tick goes on or ends.
LEMMA ReadTextInv == IInv /\ ReadText => IInv'
<1> SUFFICES ASSUME IInv, ReadText PROVE IInv'
  OBVIOUS
<1>1. /\ pc = "read" /\ ~potential
      /\ UNCHANGED <<clip, enabled, stop, lastFmtSig, lastImgHash, sinceImg>>
  BY DEF ReadText
<1>2. TypeOK /\ Budget /\ clip \in Item /\ repeats \in Nat
  BY DEF IInv, TypeOK, MaxRepeats
<1>3. faults' \in 0..MaxFaults
  <2>1. faults \in 0..MaxFaults /\ MaxFaults \in Nat
    BY <1>2, WatcherAssumption DEF TypeOK
  <2>2. faults' = faults \/ (faults < MaxFaults /\ faults' = faults + 1)
    BY DEF ReadText, Fault
  <2> QED
    BY <2>1, <2>2
<1>4. InTick = 1 /\ DueText \in 0..1 /\ DueImage \in 0..1 /\ DueLater \in 0..1
  BY <1>1, Ones DEF InTick, One
<1>5. CASE clip.text \notin Short \cup {None, lastTextHash} /\ lastTextHash' = clip.text
           /\ Report(clip.text)
  <2>1. clip.text \in Text \ Short
    BY <1>2, <1>5, ItemIs
  <2>2. /\ EndTick /\ sinceDetected' \in 0..Debounce
        /\ reported' \subseteq Text \cup Image
        /\ repeats' \in 0..MaxRepeats /\ repeats' <= repeats + 1
    BY <1>2, <1>5, <2>1, Reports
  <2>3. TypeOK'
    BY <1>1, <1>2, <1>3, <1>5, <2>1, <2>2, Ended DEF TypeOK
  <2>4. DueLater' = DueLater /\ DueImage' = DueImage
    BY <1>1, <2>2, Ended DEF DueLater, DueImage
  <2>5. DueText = 1 /\ DueText' = 0
    BY <1>1, <1>5 DEF DueText, One
  <2>6. Budget'
    BY <1>1, <1>2, <1>4, <2>2, <2>4, <2>5, EndKeepsBudget
  <2> QED
    BY <2>2, <2>3, <2>6 DEF IInv
<1>6. CASE TryImage /\ lastTextHash' = lastTextHash
  <2>1. CASE GoOn("image") /\ UNCHANGED <<potential, sinceDetected, history>>
    <3>1. pc' = "image" /\ formats' = formats
          /\ UNCHANGED <<potential, sinceDetected, reported, repeats>>
      BY <2>1 DEF GoOn, history
    <3>2. TypeOK'
      BY <1>1, <1>2, <1>3, <1>6, <3>1 DEF TypeOK
    <3>3. /\ DueNow' = 0 /\ DueLater' = DueLater /\ DueText' = DueText /\ DueImage' = DueImage
          /\ InTick' = 1
      BY <1>1, <1>6, <3>1 DEF DueNow, DueLater, DueText, DueImage, InTick, One
    <3>4. /\ repeats + 0 + DueLater + DueText + DueImage
               <= repeats + DueNow + DueLater + DueText + DueImage
          /\ repeats + 1 <= repeats + InTick
      BY <1>2, <1>4, Ones
    <3>5. Budget'
      BY <1>1, <1>2, <1>4, <3>1, <3>3, <3>4, Keeps
    <3> QED
      BY <3>2, <3>5 DEF IInv
  <2>2. CASE NoReport
    <3>1. /\ EndTick /\ sinceDetected' \in 0..Debounce
          /\ reported' \subseteq Text \cup Image
          /\ repeats' = repeats /\ repeats' \in 0..MaxRepeats
      BY <1>2, <2>2, NoReports
    <3>2. TypeOK'
      BY <1>1, <1>2, <1>3, <1>6, <3>1, Ended DEF TypeOK
    <3>3. DueLater' = DueLater /\ DueText' = DueText /\ DueImage' = DueImage
      BY <1>1, <1>6, <3>1, Ended DEF DueLater, DueText, DueImage
    <3>4. repeats' <= repeats + 1
      BY <1>2, <3>1
    <3>5. Budget'
      BY <1>1, <1>2, <1>4, <3>1, <3>3, <3>4, EndKeepsBudget
    <3> QED
      BY <3>1, <3>2, <3>5 DEF IInv
  <2> QED
    BY <1>6, <2>1, <2>2 DEF TryImage
<1> QED
  BY <1>5, <1>6 DEF ReadText

\* ReadImage: the report of an image whose hash was not kept, or none.
LEMMA ReadImageInv == IInv /\ ReadImage => IInv'
<1> SUFFICES ASSUME IInv, ReadImage PROVE IInv'
  OBVIOUS
<1>1. /\ pc = "image"
      /\ UNCHANGED <<clip, enabled, stop, lastFmtSig, lastTextHash>>
      /\ sinceImg' \in {0, sinceImg}
  BY DEF ReadImage
<1>2. TypeOK /\ Budget /\ clip \in Item /\ repeats \in Nat
  BY DEF IInv, TypeOK, MaxRepeats
<1>3. faults' \in 0..MaxFaults
  <2>1. faults \in 0..MaxFaults /\ MaxFaults \in Nat
    BY <1>2, WatcherAssumption DEF TypeOK
  <2>2. faults' = faults \/ (faults < MaxFaults /\ faults' = faults + 1)
    BY DEF ReadImage, Fault
  <2> QED
    BY <2>1, <2>2
<1>4. /\ InTick = 1 /\ DueText \in 0..1 /\ DueImage \in 0..1 /\ sinceImg' \in 0..(Throttle + 1)
  BY <1>1, <1>2, Ones, WatcherAssumption DEF InTick, One, TypeOK
<1>5. CASE clip.image \notin {None, lastImgHash} /\ lastImgHash' = clip.image
           /\ Report(clip.image)
  <2>1. clip.image \in Image
    BY <1>2, <1>5, ItemIs
  <2>2. /\ EndTick /\ sinceDetected' \in 0..Debounce
        /\ reported' \subseteq Text \cup Image
        /\ repeats' \in 0..MaxRepeats /\ repeats' <= repeats + 1
    BY <1>2, <1>5, <2>1, Reports
  <2>3. TypeOK'
    BY <1>1, <1>2, <1>3, <1>4, <1>5, <2>1, <2>2, Ended DEF TypeOK
  <2>4. DueLater' = DueLater /\ DueText' = DueText
    BY <1>1, <2>2, Ended DEF DueLater, DueText
  <2>5. DueImage = 1 /\ DueImage' = 0
    BY <1>1, <1>5 DEF DueImage, One
  <2>6. Budget'
    BY <1>1, <1>2, <1>4, <2>2, <2>4, <2>5, EndKeepsBudget
  <2> QED
    BY <2>2, <2>3, <2>6 DEF IInv
<1>6. CASE NoReport /\ lastImgHash' = lastImgHash
  <2>1. /\ EndTick /\ sinceDetected' \in 0..Debounce
        /\ reported' \subseteq Text \cup Image
        /\ repeats' = repeats /\ repeats' \in 0..MaxRepeats
    BY <1>2, <1>6, NoReports
  <2>2. TypeOK'
    BY <1>1, <1>2, <1>3, <1>4, <1>6, <2>1, Ended DEF TypeOK
  <2>3. DueLater' = DueLater /\ DueText' = DueText /\ DueImage' = DueImage
    BY <1>1, <1>6, <2>1, Ended DEF DueLater, DueText, DueImage
  <2>4. repeats' <= repeats + 1
    BY <1>2, <2>1
  <2>5. Budget'
    BY <1>1, <1>2, <1>4, <2>1, <2>3, <2>4, EndKeepsBudget
  <2> QED
    BY <2>1, <2>2, <2>5 DEF IInv
<1> QED
  BY <1>5, <1>6 DEF ReadImage

\* Copy and Reload begin to count anew.
LEMMA CopyInv == IInv /\ Copy => IInv'
<1> SUFFICES ASSUME IInv, Copy PROVE IInv'
  OBVIOUS
<1>1. clip' \in Item /\ repeats' = 0
      /\ UNCHANGED <<enabled, stop, tick, memo, faults, reported>>
  BY DEF Copy
<1>2. TypeOK'
  <2>1. repeats' \in 0..MaxRepeats
    BY <1>1 DEF MaxRepeats
  <2>2. TypeOK'
    BY <1>1, <2>1 DEF IInv, TypeOK, tick, memo
  <2> QED
    BY <1>1, <2>2 DEF IInv, tick
<1>3. Budget'
  BY <1>1, BudgetFull
<1> QED
  BY <1>2, <1>3 DEF IInv

LEMMA ReloadInv == IInv /\ Reload => IInv'
<1> SUFFICES ASSUME IInv, Reload PROVE IInv'
  OBVIOUS
<1>1. enabled' \in BOOLEAN /\ stop' = FALSE /\ repeats' = 0
      /\ UNCHANGED <<clip, tick, memo, faults, reported>>
  BY DEF Reload
<1>2. TypeOK'
  <2>1. repeats' \in 0..MaxRepeats
    BY <1>1 DEF MaxRepeats
  <2>2. TypeOK'
    BY <1>1, <2>1 DEF IInv, TypeOK, tick, memo
  <2> QED
    BY <1>1, <2>2 DEF IInv, tick
<1>3. Budget'
  BY <1>1, BudgetFull
<1> QED
  BY <1>2, <1>3 DEF IInv

LEMMA SameInv ==
  ASSUME IInv, UNCHANGED <<clip, enabled, tick, memo, faults, history>>, stop' \in BOOLEAN
  PROVE  IInv'
<1>1. TypeOK'
  BY DEF IInv, TypeOK, tick, memo, history
<1>2. DueNow' = DueNow /\ DueLater' = DueLater /\ DueText' = DueText /\ DueImage' = DueImage
      /\ HasText' = HasText /\ HasImage' = HasImage /\ InTick' = InTick
      /\ repeats' = repeats /\ enabled' = enabled
  BY DEF DueNow, DueLater, DueText, DueImage, HasText, HasImage, InTick, tick, memo, history
<1>3. Budget'
  BY <1>2 DEF IInv, Budget
<1> QED
  BY <1>1, <1>3 DEF IInv

LEMMA Invariant == Spec => []IInv
<1>1. IInv /\ [Next]_vars => IInv'
  <2> SUFFICES ASSUME IInv, [Next]_vars PROVE IInv'
    OBVIOUS
  <2>1. CASE Tick
    BY <2>1, StoppedInv, DisabledInv, ReadFormatsInv, CheckConcealedInv, ReadContentInv,
       ReadContentTextInv, ReadTextInv, ReadImageInv DEF Tick
  <2>2. CASE Copy \/ Reload
    BY <2>2, CopyInv, ReloadInv
  <2>3. CASE Shutdown
    BY <2>3, SameInv DEF Shutdown
  <2>4. CASE UNCHANGED vars
    <3>1. stop' \in BOOLEAN
      BY <2>4 DEF vars, IInv, TypeOK
    <3> QED
      BY <2>4, <3>1, SameInv DEF vars
  <2> QED
    BY <2>1, <2>2, <2>3, <2>4 DEF Next
<1> QED
  BY <1>1, InitInv, PTL DEF Spec

-----------------------------------------------------------------------------
\* The watcher's variables keep their types, whatever is copied, fails or is reloaded.
THEOREM WatcherTyped == Spec => []TypeOK
<1>1. IInv => TypeOK
  BY DEF IInv
<1> QED
  BY <1>1, Invariant, PTL

\* What stays on the clipboard is reported no more often than its formats and its
\* contents are new to the watcher, at any debounce, throttle and spacing of the ticks.
THEOREM FewReports == Spec => []ReportsAreBounded
<1>1. IInv => ReportsAreBounded
  <2> SUFFICES ASSUME IInv PROVE ReportsAreBounded
    OBVIOUS
  <2>1. repeats \in Nat /\ enabled \in BOOLEAN
    BY DEF IInv, TypeOK, MaxRepeats
  <2>2. repeats <= 2 + HasText + HasImage
    <3>1. enabled => repeats + DueNow + DueLater + DueText + DueImage <= 2 + HasText + HasImage
      BY DEF IInv, Budget
    <3>2. ~enabled => repeats + InTick <= 1
      BY DEF IInv, Budget
    <3>3. CASE enabled
      BY <2>1, <3>1, <3>3, Ones
    <3>4. CASE ~enabled
      BY <2>1, <3>2, <3>4, Ones
    <3> QED
      BY <3>3, <3>4
  <2>3. CASE clip.text # None /\ clip.image # None
    <3>1. HasText = 1 /\ HasImage = 1
      BY <2>3 DEF HasText, HasImage, One
    <3> QED
      BY <2>1, <2>2, <2>3, <3>1 DEF ReportsAreBounded
  <2>4. CASE ~(clip.text # None /\ clip.image # None)
    <3>1. HasText = 0 \/ HasImage = 0
      BY <2>4 DEF HasText, HasImage, One
    <3>2. repeats <= 3
      BY <2>1, <2>2, <3>1, Ones
    <3> QED
      BY <2>4, <3>2 DEF ReportsAreBounded
  <2> QED
    BY <2>3, <2>4
<1> QED
  BY <1>1, Invariant, PTL
================================================================================
