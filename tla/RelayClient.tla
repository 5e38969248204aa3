------------------------------ MODULE RelayClient ------------------------------
(***************************************************************************)
(* The relay seen from the machines that use it (internal/relay/client.go, *)
(* the `pastelocal relay` commands, pastelocal-remote --relay, and the     *)
(* daemon's pushes).  A machine has two files, the device key that         *)
(* `relay init` makes and the token that `relay pair` is given; a command  *)
(* reads both when it starts and then sends one request after another,     *)
(* while other commands change the files and the relay.                    *)
(*                                                                         *)
(* A device's ID is the hash of its public key and its token stands for    *)
(* it, so that a device, its key and its token are one value here.  What   *)
(* two devices share by ECDH is the set of the two.  The relay's handlers  *)
(* are single steps; RelayServer has their steps.                          *)
(***************************************************************************)
EXTENDS Naturals, FiniteSets

CONSTANTS
  Machine,
  Device,       \* keys that can be generated
  Clip,         \* what is sent: [name, format]
  Argument,     \* what can be given for a device: sets of the devices it matches
  Agent,        \* terminals, and the goroutines of the daemons
  Absent,
  MaxCommands   \* bound on commands

ASSUME RelayClientAssumption ==
  /\ Absent \notin Machine \cup Device
  /\ Argument \subseteq SUBSET Device
  /\ MaxCommands \in Nat

VARIABLES
  keyFile,      \* machine -> device-key, or Absent
  tokenFile,    \* machine -> relay-token, or Absent
  daemon,       \* machine -> what its daemon read from the two at its start, or Absent
  registered,   \* the relay's Devices and Tokens
  peers,        \* its Peers: device -> the devices added
  slot,         \* its Inbox with the blobs: receiver -> sender -> mail, or Absent
  agent,        \* the commands
  commands,     \* commands started so far
  sent          \* history: what was uploaded: sender, receiver, clip

relay == <<keyFile, tokenFile, daemon, registered, peers, slot, agent, commands, sent>>

\* secret: the pair of devices whose shared secret it is encrypted with.
Mail == [secret : SUBSET Device, clip : Clip]

Step == {"done", "register", "save token", "list peers", "list devices", "upload",
         "sent", "list inbox", "fetch", "fetch literal", "resolve", "find key",
         "written", "no decryption"}

Command == {"pair", "send", "push", "fetch newest", "fetch"}

Formats == {c.format : c \in Clip}

\* A command: key and token are what it has read, named is what its argument matches,
\* clip what it sends, listed the format it was told of, device the one it has resolved
\* the argument to, todo the peers a push has left, ext the file's; added is history: the
\* peers that matched at the start, none if they could not be listed.
Job == [step    : Step,
        cmd     : Command \cup {Absent},
        machine : Machine \cup {Absent},
        key     : Device \cup {Absent},
        token   : Device \cup {Absent},
        named   : SUBSET Device,
        clip    : Clip \cup {Absent},
        listed  : Formats \cup {Absent},
        device  : Device \cup {Absent},
        mail    : Mail \cup {Absent},
        todo    : SUBSET Device,
        added   : SUBSET Device,
        ext     : Formats \cup {"bin", Absent}]

NoJob == [step |-> "done", cmd |-> Absent, machine |-> Absent, key |-> Absent,
          token |-> Absent, named |-> {}, clip |-> Absent, listed |-> Absent,
          device |-> Absent, mail |-> Absent, todo |-> {}, added |-> {}, ext |-> Absent]

RelayTypeOK ==
  /\ keyFile \in [Machine -> Device \cup {Absent}]
  /\ tokenFile \in [Machine -> Device \cup {Absent}]
  /\ daemon \in [Machine -> [key : Device, token : Device] \cup {Absent}]
  /\ registered \subseteq Device
  /\ peers \in [Device -> SUBSET Device]
  /\ slot \in [Device -> [Device -> Mail \cup {Absent}]]
  /\ agent \in [Agent -> Job]
  /\ \A a \in Agent : agent[a].step # "done" =>
       agent[a].machine \in Machine /\ agent[a].key \in Device /\ agent[a].token \in Device
  /\ commands \in 0..MaxCommands
  /\ sent \subseteq Device \X Device \X Clip

\* Some machines have been paired before, and their owners have added none of the
\* others as peers, or all.
RelayInit ==
  /\ keyFile \in [Machine -> Device \cup {Absent}]
  /\ \A m, n \in Machine : keyFile[m] = keyFile[n] => m = n \/ keyFile[m] = Absent
  /\ tokenFile = keyFile
  /\ daemon = [m \in Machine |->
                 IF keyFile[m] = Absent THEN Absent
                 ELSE [key |-> keyFile[m], token |-> keyFile[m]]]
  /\ registered = {keyFile[m] : m \in Machine} \ {Absent}
  /\ \/ peers = [d \in Device |-> {}]
     \/ peers = [d \in Device |-> IF d \in registered THEN registered \ {d} ELSE {}]
  /\ slot = [r \in Device |-> [s \in Device |-> Absent]]
  /\ agent = [a \in Agent |-> NoJob]
  /\ commands = 0
  /\ sent = {}

-----------------------------------------------------------------------------
Begin ==
  /\ commands < MaxCommands
  /\ commands' = commands + 1

\* Both files are there; what is in them is used to the end of the command.
HasFiles(m) == keyFile[m] # Absent /\ tokenFile[m] # Absent

Started(m, cmd, step) == [NoJob EXCEPT !.step = step, !.cmd = cmd, !.machine = m,
                                       !.key = keyFile[m], !.token = tokenFile[m]]

Become(a, r)  == agent' = [agent EXCEPT ![a] = r]
Finish(a)     == Become(a, NoJob)
Finished(a)   == agent[a].step \in {"done", "sent", "written", "no decryption"}

\* `relay init` makes a key without a look at the one that is there; nobody else has it.
GenerateKey(m, key) ==
  /\ Begin
  /\ key \notin registered \cup {keyFile[n] : n \in Machine}
                \cup {daemon[n].key : n \in {l \in Machine : daemon[l] # Absent}}
                \cup {agent[a].key : a \in Agent}
  /\ keyFile' = [keyFile EXCEPT ![m] = key]
  /\ UNCHANGED <<tokenFile, daemon, registered, peers, slot, agent, sent>>

\* `relay pair`: it reads the key, registers, and saves the token that is for that key.
StartPair(a, m) ==
  /\ Begin
  /\ Finished(a)
  /\ keyFile[m] # Absent
  /\ Become(a, [Started(m, "pair", "register") EXCEPT !.token = keyFile[m]])
  /\ UNCHANGED <<keyFile, tokenFile, daemon, registered, peers, slot, sent>>

Register(a) ==
  /\ agent[a].step = "register"
  /\ registered' = registered \cup {agent[a].key}
  /\ Become(a, [agent[a] EXCEPT !.step = "save token"])
  /\ UNCHANGED <<keyFile, tokenFile, daemon, peers, slot, commands, sent>>

SaveToken(a) ==
  /\ agent[a].step = "save token"
  /\ tokenFile' = [tokenFile EXCEPT ![agent[a].machine] = agent[a].token]
  /\ Finish(a)
  /\ UNCHANGED <<keyFile, daemon, registered, peers, slot, commands, sent>>

\* The daemon reads the files when it starts, and not again.
StartDaemon(m) ==
  /\ daemon' = [daemon EXCEPT ![m] =
                  IF HasFiles(m) THEN [key |-> keyFile[m], token |-> tokenFile[m]] ELSE Absent]
  /\ UNCHANGED <<keyFile, tokenFile, registered, peers, slot, agent, commands, sent>>

\* `relay add-peer`: the relay refuses a device ID that is not the token's, and a peer
\* that is not registered.
AddPeer(m, d) ==
  /\ Begin
  /\ HasFiles(m)
  /\ keyFile[m] = tokenFile[m]
  /\ d \in registered
  /\ peers' = [peers EXCEPT ![tokenFile[m]] = @ \cup {d}]
  /\ UNCHANGED <<keyFile, tokenFile, daemon, registered, slot, agent, sent>>

-----------------------------------------------------------------------------
\* `relay send` and pastelocal-remote --relay --send.
StartSend(a, m, named, clip) ==
  /\ Begin
  /\ Finished(a)
  /\ HasFiles(m)
  /\ Become(a, [Started(m, "send", "list peers") EXCEPT
                  !.named = named, !.clip = clip, !.added = peers[tokenFile[m]] \cap named])
  /\ UNCHANGED <<keyFile, tokenFile, daemon, registered, peers, slot, sent>>

\* A mistaken variant: every peer will do.
FirstPeer(a) == peers[agent[a].token]

\* The peers that match: a full device ID, a full fingerprint or a prefix.
PeerMatch(a) == peers[agent[a].token] \cap agent[a].named

\* The first of them, in the relay's order.  A request that fails is taken for an empty
\* list.
ListPeers(a) ==
  /\ agent[a].step = "list peers"
  /\ \/ Become(a, [agent[a] EXCEPT !.step = "list devices", !.added = {}])
     \/ \E d \in PeerMatch(a) : Become(a, [agent[a] EXCEPT !.step = "upload", !.device = d])
  /\ UNCHANGED <<keyFile, tokenFile, daemon, registered, peers, slot, commands, sent>>

\* ListDevices, for want of a peer, or when a sender is looked for: every device of the
\* relay.
DeviceMatch(a) == registered \cap agent[a].named

ListDevices(a) ==
  /\ agent[a].step = "list devices"
  /\ \/ DeviceMatch(a) = {} /\ Finish(a)
     \/ \E d \in DeviceMatch(a) : Become(a, [agent[a] EXCEPT !.step = "upload", !.device = d])
  /\ UNCHANGED <<keyFile, tokenFile, daemon, registered, peers, slot, commands, sent>>

\* EncryptAndUploadTo: refused when the key is not that of the token.
Upload(a, d) ==
  LET mail == [secret |-> {agent[a].key, d}, clip |-> agent[a].clip] IN
  IF agent[a].key = agent[a].token
  THEN /\ slot' = [slot EXCEPT ![d][agent[a].token] = mail]
       /\ sent' = sent \cup {<<agent[a].token, d, agent[a].clip>>}
  ELSE UNCHANGED <<slot, sent>>

\* It ends with an error when it was refused or the answer does not come.
Send(a) ==
  /\ agent[a].step = "upload" /\ agent[a].cmd = "send"
  /\ Upload(a, agent[a].device)
  /\ \/ agent[a].key = agent[a].token /\ Become(a, [agent[a] EXCEPT !.step = "sent"])
     \/ Finish(a)
  /\ UNCHANGED <<keyFile, tokenFile, daemon, registered, peers, commands>>

\* pushToRelayPeers: one goroutine for a clip, one upload for each peer listed; one
\* that fails is skipped.
StartPush(a, m, clip) ==
  /\ Begin
  /\ Finished(a)
  /\ daemon[m] # Absent
  /\ peers[daemon[m].token] # {}
  /\ Become(a, [NoJob EXCEPT !.step = "upload", !.cmd = "push", !.machine = m,
                               !.key = daemon[m].key, !.token = daemon[m].token,
                               !.clip = clip, !.todo = peers[daemon[m].token]])
  /\ UNCHANGED <<keyFile, tokenFile, daemon, registered, peers, slot, sent>>

Push(a, d) ==
  /\ agent[a].step = "upload" /\ agent[a].cmd = "push"
  /\ d \in agent[a].todo
  /\ Upload(a, d) \/ UNCHANGED <<slot, sent>>
  /\ IF agent[a].todo = {d} THEN Finish(a)
     ELSE Become(a, [agent[a] EXCEPT !.todo = @ \ {d}])
  /\ UNCHANGED <<keyFile, tokenFile, daemon, registered, peers, commands>>

-----------------------------------------------------------------------------
\* pastelocal-remote --relay: the inbox, and of what is pending the newest by the
\* clocks of its senders, which may be any.
StartFetchNewest(a, m) ==
  /\ Begin
  /\ Finished(a)
  /\ HasFiles(m)
  /\ Become(a, Started(m, "fetch newest", "list inbox"))
  /\ UNCHANGED <<keyFile, tokenFile, daemon, registered, peers, slot, sent>>

Pending(d) == {s \in Device : slot[d][s] # Absent}

ListInbox(a) ==
  /\ agent[a].step = "list inbox"
  /\ \/ Pending(agent[a].token) = {} /\ Finish(a)
     \/ \E s \in Pending(agent[a].token) :
          Become(a, [agent[a] EXCEPT !.step = "fetch", !.named = {s}, !.device = s,
                                     !.listed = slot[agent[a].token][s].clip.format])
  /\ UNCHANGED <<keyFile, tokenFile, daemon, registered, peers, slot, commands, sent>>

\* `relay fetch`: first as if the argument was a device ID,
StartFetch(a, m, named) ==
  /\ Begin
  /\ Finished(a)
  /\ HasFiles(m)
  /\ Become(a, [Started(m, "fetch", "fetch literal") EXCEPT !.named = named])
  /\ UNCHANGED <<keyFile, tokenFile, daemon, registered, peers, slot, sent>>

\* FetchFromInbox: the mail stays where it is.
Fetched(a, s) == [agent[a] EXCEPT !.step = "find key", !.device = s,
                                  !.mail = slot[agent[a].token][s]]

FetchLiteral(a) ==
  /\ agent[a].step = "fetch literal"
  /\ \/ Become(a, [agent[a] EXCEPT !.step = "resolve"])
     \/ \E s \in Pending(agent[a].token) : agent[a].named = {s} /\ Become(a, Fetched(a, s))
  /\ UNCHANGED <<keyFile, tokenFile, daemon, registered, peers, slot, commands, sent>>

\* then from the first device it matches; without one the argument is tried again.
Resolve(a) ==
  /\ agent[a].step = "resolve"
  /\ \/ Finish(a)
     \/ \E s \in agent[a].named :
          /\ s \in registered \/ agent[a].named = {s}
          /\ Become(a, [agent[a] EXCEPT !.step = "fetch", !.device = s])
  /\ UNCHANGED <<keyFile, tokenFile, daemon, registered, peers, slot, commands, sent>>

FetchFromInbox(a) ==
  LET s == agent[a].device IN
  /\ agent[a].step = "fetch"
  /\ IF s \in Pending(agent[a].token) THEN Become(a, Fetched(a, s)) ELSE Finish(a)
  /\ UNCHANGED <<keyFile, tokenFile, daemon, registered, peers, slot, commands, sent>>

\* Mistaken variants: the key of any device that the argument matches; the format that
\* the inbox was listed with.
KeyOfNamed(a)   == DeviceMatch(a)
ListedFormat(a) == IF agent[a].listed = Absent THEN agent[a].mail.clip.format
                   ELSE agent[a].listed

\* The public key that the relay has for the sender.
SenderKey(a) == registered \cap {agent[a].device}

\* The extension of the file: `relay fetch` has a name for images only.
FileFormat(a) ==
  LET format == agent[a].mail.clip.format
  IN  IF agent[a].cmd = "fetch" /\ format # "png" THEN "bin" ELSE format

\* The key of the sender from another ListDevices, the decryption, and the file.
Decrypt(a) ==
  /\ agent[a].step = "find key"
  /\ \/ SenderKey(a) = {} /\ Finish(a)
     \/ \E key \in SenderKey(a) :
          IF agent[a].mail.secret = {agent[a].key, key}
          THEN Become(a, [agent[a] EXCEPT !.step = "written", !.ext = FileFormat(a)])
          ELSE Become(a, [agent[a] EXCEPT !.step = "no decryption"])
  /\ UNCHANGED <<keyFile, tokenFile, daemon, registered, peers, slot, commands, sent>>

-----------------------------------------------------------------------------
\* A request that fails ends its command; so does Ctrl-C.
Fail(a) ==
  /\ ~Finished(a)
  /\ Finish(a)
  /\ UNCHANGED <<keyFile, tokenFile, daemon, registered, peers, slot, commands, sent>>

\* The relay drops a mail that has expired, or one of a box that is full.
Drop(r, s) ==
  /\ slot[r][s] # Absent
  /\ slot' = [slot EXCEPT ![r][s] = Absent]
  /\ UNCHANGED <<keyFile, tokenFile, daemon, registered, peers, agent, commands, sent>>

RelayNext ==
  \/ \E m \in Machine :
       \/ \E d \in Device : GenerateKey(m, d) \/ AddPeer(m, d)
       \/ StartDaemon(m)
  \/ \E a \in Agent :
       \/ \E m \in Machine :
            \/ StartPair(a, m) \/ StartFetchNewest(a, m)
            \/ \E clip \in Clip :
                 StartPush(a, m, clip) \/ \E named \in Argument : StartSend(a, m, named, clip)
            \/ \E named \in Argument : StartFetch(a, m, named)
       \/ Register(a) \/ SaveToken(a)
       \/ ListPeers(a) \/ ListDevices(a) \/ Send(a) \/ \E d \in Device : Push(a, d)
       \/ ListInbox(a) \/ FetchLiteral(a) \/ Resolve(a) \/ FetchFromInbox(a) \/ Decrypt(a)
       \/ Fail(a)
  \/ \E r, s \in Device : Drop(r, s)

RelaySpec == RelayInit /\ [][RelayNext]_relay

-----------------------------------------------------------------------------
\* Two devices that are registered can read each other's mail: a fetch that cannot
\* decrypt what it got is one of a machine whose key file is no longer the one its token
\* was given for (`relay init` run again).
FetchesDecrypt ==
  \A a \in Agent : agent[a].step = "no decryption" => agent[a].key # agent[a].token

\* What a send reports as sent went to a device that its argument matches, and to a peer
\* if one matched when it began, unless it could not list the peers; and what lies in a
\* box, for whomever it was meant, only its owner and its sender can read.
SendsReachTheNamed ==
  /\ \A a \in Agent : agent[a].step = "sent" =>
       /\ agent[a].device \in agent[a].named
       /\ agent[a].added # {} => agent[a].device \in peers[agent[a].token]
       /\ <<agent[a].token, agent[a].device, agent[a].clip>> \in sent
  /\ \A r, s \in Device : slot[r][s] # Absent => slot[r][s].secret = {r, s}

\* The file of a fetch holds a clip that a device its argument matches sent to this
\* machine's device, and only an image has the name of one.
RelayFileIsFromTheNamed ==
  \A a \in Agent : agent[a].step = "written" =>
    /\ agent[a].device \in agent[a].named
    /\ <<agent[a].device, agent[a].token, agent[a].mail.clip>> \in sent
    /\ agent[a].ext = "png" <=> agent[a].mail.clip.format = "png"
=============================================================================
