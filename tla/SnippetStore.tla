----------------------------- MODULE SnippetStore -----------------------------
(***************************************************************************)
(* Named snippets (internal/snippets/snippets.go) behind the daemon's      *)
(* endpoints, and the commands that save, remove and fetch one.  Each      *)
(* request makes a Store of its own, so the Store's mutex excludes nothing *)
(* and saves interleave at the file system: a directory of names, each     *)
(* with a file and a temporary file, which are inodes, so that a handle    *)
(* keeps writing to its inode after a rename.                              *)
(*                                                                         *)
(* A version of a snippet is named by the length of its JSON: the file     *)
(* that holds it whole is that many copies of it, and a shorter file       *)
(* written over a longer one leaves the end of the longer one there.       *)
(***************************************************************************)
EXTENDS Naturals, Sequences, FiniteSetsExt, Functions

CONSTANTS
  Name,      \* snippet names
  Version,   \* what is saved: lengths
  DataSize,  \* version -> the length of its data, which the JSON has in base64
  Saver,     \* commands that save, each with the handler that serves it
  Inode,     \* enough of them: two per name and one per handler
  MaxSize    \* maxSize

\* An inode for every name, temporary name and handle.
ASSUME SnippetAssumption ==
  /\ IsFiniteSet(Name) /\ IsFiniteSet(Saver)
  /\ Version \subseteq Nat \ {0}
  /\ \A v \in Version : DataSize[v] \in 0..v
  /\ Inode \subseteq Nat \ {0} /\ IsFiniteSet(Inode)
  /\ Cardinality(Inode) >= 2 * Cardinality(Name) + Cardinality(Saver)

VARIABLES
  content,   \* inode -> what is in it
  path,      \* name -> inode of <name>.json, or 0
  tmp,       \* name -> inode of <name>.json.tmp, or 0
  save,      \* per saver: where it is in Save
  sure,      \* history: names last changed by a save that no other save of the name
             \* overlapped, or by a removal,
  kept,      \* history: and the version, if any, that it left
  saved,     \* history: name -> the versions somebody began to save
  fetched    \* history: the name and the data of the last file fetched

snippets == <<content, path, tmp, save, sure, kept, saved, fetched>>

NoSave == [step |-> "idle", name |-> 0, version |-> 0, inode |-> 0, lone |-> TRUE]

SnippetTypeOK ==
  /\ \A i \in Inode : content[i] \in Seq(Version)
  /\ path \in [Name -> Inode \cup {0}]
  /\ tmp \in [Name -> Inode \cup {0}]
  /\ \A t \in Saver :
       \/ save[t] = NoSave
       \/ /\ save[t].step \in {"post", "open", "write", "rename", "remove"}
          /\ save[t].name \in Name /\ save[t].version \in Version
          /\ save[t].inode \in Inode \cup {0} /\ save[t].lone \in BOOLEAN
  /\ sure \subseteq Name
  /\ kept \in [Name -> SUBSET Version]
  /\ saved \in [Name -> SUBSET Version]
  /\ fetched = <<>> \/ fetched[1] \in Name

SnippetInit ==
  /\ content = [i \in Inode |-> <<>>]
  /\ path = [n \in Name |-> 0]
  /\ tmp = [n \in Name |-> 0]
  /\ save = [t \in Saver |-> NoSave]
  /\ sure = Name
  /\ kept = [n \in Name |-> {}]
  /\ saved = [n \in Name |-> {}]
  /\ fetched = <<>>

-----------------------------------------------------------------------------
Whole(v) == [i \in 1..v |-> v]

\* loadUnlocked: what has no parse error and the hash it says it has.
Load(n) == IF path[n] = 0 THEN {} ELSE {v \in Version : content[path[n]] = Whole(v)}

\* List skips what it cannot load.
Listed == {n \in Name : Load(n) # {}}

\* totalSize: every file of the directory, the temporary ones included.
TotalSize ==
  LET Size(i) == IF i = 0 THEN 0 ELSE Len(content[i])
  IN  MapThenSumSet(LAMBDA n : Size(path[n]) + Size(tmp[n]), Name)

Unused == Inode \ (Range(path) \cup Range(tmp) \cup {save[t].inode : t \in Saver})

\* The inodes after a step: one without a name and without a handle is gone.
Content(data) == [i \in Inode |-> IF i \in Unused' THEN <<>> ELSE data[i]]

\* The handlers that are saving it.
Busy(n) == {t \in Saver : save[t].step \notin {"idle", "post"} /\ save[t].name = n}

\* `pastelocal snippets save`: it reads the clipboard and posts what it has read.
SnippetSave(t, n, v) ==
  /\ save[t].step = "idle"
  /\ save' = [save EXCEPT ![t] = [NoSave EXCEPT !.step = "post", !.name = n, !.version = v]]
  /\ saved' = [saved EXCEPT ![n] = @ \cup {v}]
  /\ UNCHANGED <<content, path, tmp, sure, kept, fetched>>

\* Save, to where it has the JSON: it refuses what is too much, and adds the bare data
\* to the sizes of files.
Fits(v) == TotalSize + DataSize[v] <= MaxSize

\* The handler of the request, which makes a Store and calls Save.
HandleSave(t) ==
  LET n == save[t].name IN
  /\ save[t].step = "post"
  /\ save' = IF ~Fits(save[t].version) THEN [save EXCEPT ![t] = NoSave]
             ELSE [u \in Saver |->
                     IF u = t THEN [save[t] EXCEPT !.step = "open", !.lone = Busy(n) = {}]
                     ELSE IF u \in Busy(n) THEN [save[u] EXCEPT !.lone = FALSE] ELSE save[u]]
  /\ UNCHANGED <<content, path, tmp, sure, kept, saved, fetched>>

\* A mistaken variant: the temporary file is opened as it is.
OpenAsItIs(t) ==
  LET n == save[t].name
      i == IF tmp[n] = 0 THEN Min(Unused) ELSE tmp[n]
  IN  /\ save[t].step = "open"
      /\ tmp' = [tmp EXCEPT ![n] = i]
      /\ save' = [save EXCEPT ![t].step = "write", ![t].inode = i]
      /\ UNCHANGED <<content, path, sure, kept, saved, fetched>>

\* os.WriteFile opens the temporary file, which it makes or empties,
OpenTmp(t) ==
  LET n == save[t].name
      i == IF tmp[n] = 0 THEN Min(Unused) ELSE tmp[n]
  IN  /\ save[t].step = "open"
      /\ tmp' = [tmp EXCEPT ![n] = i]
      /\ content' = [content EXCEPT ![i] = <<>>]
      /\ save' = [save EXCEPT ![t].step = "write", ![t].inode = i]
      /\ UNCHANGED <<path, sure, kept, saved, fetched>>

\* and writes from its beginning and closes it; when the disk is full it returns an
\* error, and Save leaves what was written.
WriteTmp(t) ==
  LET s == save[t] IN
  /\ s.step = "write"
  /\ UNCHANGED <<path, tmp, sure, kept, saved, fetched>>
  /\ \E size \in 0..s.version :
       /\ save' = [save EXCEPT ![t] = IF size = s.version
                                      THEN [s EXCEPT !.step = "rename", !.inode = 0]
                                      ELSE NoSave]
       /\ content' = Content([content EXCEPT ![s.inode] =
                        SubSeq(Whole(s.version), 1, size) \o SubSeq(@, size + 1, Len(@))])

\* os.Rename: whatever is under the temporary name now.
Rename(t) ==
  LET n == save[t].name IN
  /\ save[t].step = "rename"
  /\ \/ /\ tmp[n] # 0
        /\ path' = [path EXCEPT ![n] = tmp[n]]
        /\ tmp' = [tmp EXCEPT ![n] = 0]
        /\ sure' = IF save[t].lone THEN sure \cup {n} ELSE sure \ {n}
        /\ kept' = [kept EXCEPT ![n] = IF save[t].lone THEN {save[t].version} ELSE {}]
        /\ save' = [save EXCEPT ![t] = NoSave]
     \/ /\ tmp[n] = 0
        /\ save' = [save EXCEPT ![t].step = "remove"]
        /\ UNCHANGED <<path, tmp, sure, kept>>
  /\ content' = Content(content)
  /\ UNCHANGED <<saved, fetched>>

\* After a rename that failed, os.Remove takes whatever is there.
RemoveTmp(t) ==
  /\ save[t].step = "remove"
  /\ tmp' = [tmp EXCEPT ![save[t].name] = 0]
  /\ save' = [save EXCEPT ![t] = NoSave]
  /\ UNCHANGED <<path, sure, kept, saved, fetched>>
  /\ content' = Content(content)

\* `pastelocal snippets remove`.
Delete(n) ==
  /\ path[n] # 0
  /\ path' = [path EXCEPT ![n] = 0]
  /\ sure' = sure \cup {n}
  /\ kept' = [kept EXCEPT ![n] = {}]
  /\ UNCHANGED <<tmp, save, saved, fetched>>
  /\ content' = Content(content)

\* handleGetSnippet: the data of what Load returned.
Served(n) == content[path[n]]

\* `pastelocal-remote --snippet`: it writes that to a new file.
FetchSnippet(n) ==
  /\ n \in Listed
  /\ fetched' = <<n, Served(n)>>
  /\ UNCHANGED <<content, path, tmp, save, sure, kept, saved>>

\* The daemon is killed, and started again; a request that has not been sent is not lost.
KillDaemon ==
  /\ save' = [t \in Saver |-> IF save[t].step = "post" THEN save[t] ELSE NoSave]
  /\ UNCHANGED <<path, tmp, sure, kept, saved, fetched>>
  /\ content' = Content(content)

SnippetNext ==
  \/ \E t \in Saver :
       \/ \E n \in Name, v \in Version : SnippetSave(t, n, v)
       \/ HandleSave(t) \/ OpenTmp(t) \/ WriteTmp(t) \/ Rename(t) \/ RemoveTmp(t)
  \/ \E n \in Name : Delete(n) \/ FetchSnippet(n)
  \/ KillDaemon

-----------------------------------------------------------------------------
\* A snippet whose save no other save of it overlapped can be loaded as it was saved,
\* and one that was removed is gone, until the next save or removal: whatever an
\* earlier save that failed or was cut off left in the temporary file
\* (snippets.go, "Marshal and save atomically").
LoneSaveIsKept ==
  \A n \in sure : Load(n) = kept[n] /\ (kept[n] = {} => path[n] = 0)

\* What a fetch of a snippet wrote is one version of that snippet, from its first to
\* its last byte.
SnippetFileIsAVersion ==
  fetched # <<>> => \E v \in saved[fetched[1]] : fetched[2] = Whole(v)
=============================================================================
