------------------------------ MODULE HostSetup -------------------------------
(***************************************************************************)
(* The commands of pastelocal that set up the local machine and the remote *)
(* hosts (cmd/pastelocal, internal/hostinstall, doctor, config, auth,      *)
(* service).  They share, without any lock, the configuration file, the    *)
(* token in the keychain or in a file, ~/.ssh/config, the service and,     *)
(* over SSH, the files of the hosts.                                       *)
(*                                                                         *)
(* A Proc is a terminal in which one command runs at a time.  A command is *)
(* a sequence of steps, each one access to something shared; it may fail   *)
(* or be killed at every step, and several commands run at once.  Two      *)
(* files are replaced by a rename, so that a save is one step.             *)
(***************************************************************************)
EXTENDS SSHConfig, TLC

CONSTANTS
  Proc,          \* terminals
  None,          \* nothing
  Torn,          \* a token that was written in part
  DefaultPort,   \* the port of config.Default
  HasKeychain,   \* set of what is tried: the machine has a keychain or not
  InitialFile,   \* contents of ~/.ssh/config before pastelocal
  MaxCommands,   \* bound on the commands run
  MaxFaults      \* bound on the steps that fail and the commands killed

VARIABLES
  config,     \* config.toml, or None
  keychain,   \* [here: there is one, token: what it holds]
  tokenFile,  \* what the token file holds, or None
  service,    \* [unit: installed, port: what the running daemon listens on, or None]
  ssh,        \* ~/.ssh/config
  remote,     \* per host: what is installed on it
  used,       \* number of tokens generated, and so the last one
  run,        \* per terminal: the command in it
  commands,   \* commands started so far
  faults,     \* steps failed and commands killed so far
  whole,      \* history: hosts that an add-host installed in full
  delivered,  \* history: hosts that got the token since it last changed
  clobbered   \* history: a file was written by a command that had read an older one

local   == <<config, keychain, tokenFile, service, ssh>>
history == <<whole, delivered, clobbered>>
vars    == <<local, remote, used, run, commands, faults, history>>

Token      == 1..MaxCommands + 1
Permission == {"read", "write"}
Host       == [port : Port, permissions : SUBSET Permission]
Config     == [port : Port, hosts : [Alias -> Host \cup {None}]]
Installed  == [binary : {"none", "plain", "executable"}, token : Token \cup {None, Torn},
               open : BOOLEAN, skill : BOOLEAN]

Step ==
  {"save", "store", "install-unit", "start", "copy-binary", "make-executable",
   "copy-token", "private", "verify", "copy-skill", "read-ssh", "write-ssh",
   "rm-binary", "rm-token", "rm-skill", "stop", "restart", "remove-unit", "delete-token",
   "delete-config", "check-host", "check-keychain", "fix-keychain"}

Command == {"init", "init-no-keychain", "add-host", "update-token", "remove-host",
            "revoke", "rotate-token", "uninstall", "uninstall-keep-config", "doctor-fix",
            "start", "stop", "restart"}

\* What is absent is not a value.
ASSUME SetupAssumption ==
  /\ DefaultPort \in Port
  /\ HasKeychain \subseteq BOOLEAN
  /\ InitialFile \subseteq Seq(Lines)
  /\ MaxCommands \in Nat /\ MaxFaults \in Nat
  /\ None \notin Alias \cup Nat \cup Port \cup Step \cup Command
  /\ None \notin Host \cup Config
  /\ Torn \notin Nat /\ None # Torn

\* left are the steps after this one, cfg and file what it has read, todo (hosts, and None
\* for the keychain) and fixes what doctor has left to do; outdated, calm and fresh are
\* history: what has changed since it read it, nothing failed and nothing else ran, the
\* token it copied is good.
Idle == [cmd |-> None, step |-> None, left |-> <<>>, host |-> None, cfg |-> None, file |-> <<>>,
         todo |-> {}, fixes |-> <<>>, outdated |-> {}, calm |-> TRUE, fresh |-> TRUE]

TypeOK ==
  /\ config \in Config \cup {None}
  /\ keychain \in [here : BOOLEAN, token : Token \cup {None, Torn}]
  /\ tokenFile \in Token \cup {None, Torn}
  /\ service \in [unit : BOOLEAN, port : Port \cup {None}]
  /\ \A i \in DOMAIN ssh : ssh[i] \in Lines
  /\ remote \in [Alias -> Installed]
  /\ used \in 0..MaxCommands + 1
  /\ \A p \in Proc :
       \/ run[p] = Idle
       \/ /\ run[p].cmd \in Command /\ run[p].step \in Step
          /\ run[p].host \in Alias \cup {None}
          /\ run[p].cfg \in Config \cup {None}
          /\ \A i \in DOMAIN run[p].file : run[p].file[i] \in Lines
          /\ run[p].todo \subseteq Alias \cup {None}
          /\ run[p].left \in Seq(Step) /\ run[p].fixes \in Seq(Seq(Step))
          /\ run[p].outdated \subseteq {"config", "ssh"}
          /\ run[p].calm \in BOOLEAN /\ run[p].fresh \in BOOLEAN
  /\ commands \in 0..MaxCommands /\ faults \in 0..MaxFaults
  /\ whole \subseteq Alias /\ delivered \subseteq Alias /\ clobbered \in BOOLEAN

-----------------------------------------------------------------------------
(* Configuration and tokens. *)

\* config.Default and Load: a missing file is the default configuration.
Default(port) == [port |-> port, hosts |-> [a \in Alias |-> None]]
Load          == IF config = None THEN Default(DefaultPort) ELSE config

Hosts(cfg) == {a \in Alias : cfg.hosts[a] # None}

\* TokenStore.Retrieve, as the daemon calls it at every request: the keychain
\* first, then the file; None is an error.
Retrieve == IF keychain.here /\ keychain.token # None THEN keychain.token ELSE tokenFile

\* validateAuth: the token of a request is the one stored.
Accepts(token) == Retrieve # None /\ token = Retrieve

\* hostPort: opts.Port of add-host, the port doctor looks for.
HostPort(cfg, alias) == IF cfg.hosts[alias] = None THEN cfg.port ELSE cfg.hosts[alias].port

\* The configuration a command saves.
AfterCommand(cmd, cfg, alias) ==
  CASE cmd \in {"add-host", "update-token"} ->
         [cfg EXCEPT !.hosts[alias] = [port |-> HostPort(cfg, alias), permissions |-> {}]]
    [] cmd = "remove-host" -> [cfg EXCEPT !.hosts[alias] = None]
    [] cmd = "revoke"      -> [cfg EXCEPT !.hosts[alias].permissions = {}]
    [] OTHER               -> cfg

-----------------------------------------------------------------------------
Nothing == [binary |-> "none", token |-> None, open |-> FALSE, skill |-> FALSE]

\* A machine without pastelocal, or one after "init --no-keychain", "add-host a" and
\* perhaps a permission list that the owner wrote for a.
Init ==
  /\ \E here \in HasKeychain : keychain = [here |-> here, token |-> None]
  /\ run = [p \in Proc |-> Idle]
  /\ commands = 0 /\ faults = 0 /\ clobbered = FALSE
  /\ \/ /\ config = None /\ tokenFile = None /\ used = 0
        /\ service = [unit |-> FALSE, port |-> None]
        /\ ssh \in InitialFile
        /\ remote = [a \in Alias |-> Nothing]
        /\ whole = {} /\ delivered = {}
     \/ \E a \in Alias, listed \in {{}, {"read"}}, file \in InitialFile :
          /\ ~Conflicts(file, a, DefaultPort)
          /\ config = [Default(DefaultPort) EXCEPT
                         !.hosts[a] = [port |-> DefaultPort, permissions |-> listed]]
          /\ tokenFile = 1 /\ used = 1
          /\ service = [unit |-> TRUE, port |-> DefaultPort]
          /\ ssh = AddRemoteForward(Parse(file), a, DefaultPort)
          /\ remote = [b \in Alias |-> IF b # a THEN Nothing ELSE
                         [binary |-> "executable", token |-> 1, open |-> FALSE, skill |-> TRUE]]
          /\ whole = {a} /\ delivered = {a}

-----------------------------------------------------------------------------
(* How a command goes on. *)

Running == {p \in Proc : run[p] # Idle}

\* Command p starts: it parses its arguments, loads the configuration and has the steps
\* of plan to do.
Start(p, cmd, alias, cfg, plan) ==
  /\ run[p] = Idle
  /\ commands < MaxCommands
  /\ commands' = commands + 1
  /\ run' = [q \in Proc |->
       IF q = p
       THEN [Idle EXCEPT !.cmd = cmd, !.step = Head(plan), !.left = Tail(plan), !.host = alias,
                         !.cfg = cfg, !.calm = Running = {}]
       ELSE IF run[q] = Idle THEN Idle ELSE [run[q] EXCEPT !.calm = FALSE]]
  /\ UNCHANGED <<local, remote, used, faults, delivered, clobbered>>

RunInit(p, keychainless, port) ==
  /\ Start(p, IF keychainless THEN "init-no-keychain" ELSE "init", None, Default(port),
           <<"save", "store", "install-unit", "start">>)
  /\ UNCHANGED whole

\* Install, and what is left of it with --update-token-only.
InstallPlan == <<"copy-binary", "make-executable", "copy-token", "private", "verify",
                 "copy-skill", "read-ssh", "write-ssh">>
TokenPlan   == <<"copy-token", "private", "verify">>

RunAddHost(p, alias, tokenOnly) ==
  /\ IF tokenOnly THEN Start(p, "update-token", alias, Load, Append(TokenPlan, "save"))
     ELSE Start(p, "add-host", alias, Load, Append(InstallPlan, "save"))
  /\ UNCHANGED whole

\* Uninstall of the Installer.
UninstallPlan == <<"rm-binary", "rm-token", "rm-skill", "read-ssh", "write-ssh">>

RunRemoveHost(p, alias) ==
  /\ alias \in Hosts(Load)
  /\ Start(p, "remove-host", alias, Load, Append(UninstallPlan, "save"))
  /\ whole' = whole \ {alias}

\* tokens --revoke.
RunRevoke(p, alias) ==
  /\ alias \in Hosts(Load)
  /\ Start(p, "revoke", alias, Load, <<"save">>)
  /\ UNCHANGED whole

RunRotateToken(p) ==
  /\ Start(p, "rotate-token", None, Load, <<"store">>)
  /\ UNCHANGED whole

RunUninstall(p, keepConfig) ==
  LET plan == <<"stop", "remove-unit", "delete-token">> IN
  /\ IF keepConfig THEN Start(p, "uninstall-keep-config", None, Load, plan)
     ELSE Start(p, "uninstall", None, Load, Append(plan, "delete-config"))
  /\ UNCHANGED whole

\* start, stop and restart.
RunService(p, cmd) ==
  /\ Start(p, cmd, None, Load, <<cmd>>)
  /\ UNCHANGED whole

RunDoctor(p) ==
  /\ Start(p, "doctor-fix", None, Load, <<"check-keychain", "check-host">>)
  /\ UNCHANGED whole

\* A mistaken variant: what failed is reported and not fixed.
NextHost(r) == [r EXCEPT !.step = "check-host", !.left = <<>>, !.fixes = <<>>]

\* Doctor goes on with its next fix or, when none is left, with its next host.
NextFix(r) ==
  IF r.fixes = <<>> THEN [r EXCEPT !.step = "check-host", !.left = <<>>]
  ELSE LET plan == Head(r.fixes)
       IN  [r EXCEPT !.step = Head(plan), !.left = Tail(plan), !.fixes = Tail(@)]

\* What a command is when its step is done; Idle after its last step.
After(r) == IF r.left # <<>> THEN [r EXCEPT !.step = Head(r.left), !.left = Tail(r.left)]
            ELSE IF r.cmd = "doctor-fix" THEN NextFix(r) ELSE Idle

\* A file has changed: the others have read an older one.
Outdate(runs, p, file) ==
  [q \in Proc |-> IF q = p \/ runs[q] = Idle THEN runs[q]
                  ELSE [runs[q] EXCEPT !.outdated = @ \cup {file}]]

At(p, step) == run[p].step = step

\* Command p does its step and nothing else happens to a command.
Advance(p) == run' = [run EXCEPT ![p] = After(run[p])]

Others(p, alias) == {q \in Proc \ {p} : run[q] # Idle /\ run[q].host = alias}

-----------------------------------------------------------------------------
(* Over SSH: one scp, chmod, rm or stat each. *)

\* A copy keeps the mode of a file that is there.
CopyBinary(p) ==
  /\ At(p, "copy-binary")
  /\ remote' = [remote EXCEPT ![run[p].host].binary = IF @ = "executable" THEN @ ELSE "plain"]
  /\ Advance(p)
  /\ UNCHANGED <<local, used, commands, faults, history>>

MakeExecutable(p) ==
  /\ At(p, "make-executable") /\ remote[run[p].host].binary # "none"
  /\ remote' = [remote EXCEPT ![run[p].host].binary = "executable"]
  /\ Advance(p)
  /\ UNCHANGED <<local, used, commands, faults, history>>

\* A mistaken variant: a token that is there is taken for the right one.
CopyTokenOnce(p) ==
  LET h == run[p].host IN
  /\ At(p, "copy-token") /\ tokenFile # None
  /\ remote' = [remote EXCEPT ![h].token = IF @ = None THEN tokenFile ELSE @]
  /\ run' = [run EXCEPT ![p] = [After(run[p]) EXCEPT !.fresh = TRUE]]
  /\ UNCHANGED <<local, used, commands, faults, history>>

\* scp of the token file, whatever the keychain holds; a new file gets the mode that
\* the umask of the host gives.
CopyToken(p) ==
  LET h == run[p].host IN
  /\ At(p, "copy-token") /\ tokenFile # None
  /\ \E open \in IF remote[h].token = None THEN BOOLEAN ELSE {remote[h].open} :
       remote' = [remote EXCEPT ![h].token = tokenFile, ![h].open = open]
  /\ run' = [run EXCEPT ![p] = [After(run[p]) EXCEPT !.fresh = TRUE]]
  /\ UNCHANGED <<local, used, commands, faults, history>>

\* chmod 0600 of the token, by add-host or doctor.
Private(p) ==
  /\ At(p, "private") /\ remote[run[p].host].token # None
  /\ remote' = [remote EXCEPT ![run[p].host].open = FALSE]
  /\ Advance(p)
  /\ UNCHANGED <<local, used, commands, faults, history>>

\* verifyTokenPerms.
Verify(p) ==
  /\ At(p, "verify") /\ remote[run[p].host].token # None /\ ~remote[run[p].host].open
  /\ Advance(p)
  /\ UNCHANGED <<local, remote, used, commands, faults, history>>

CopySkill(p) ==
  /\ At(p, "copy-skill")
  /\ remote' = [remote EXCEPT ![run[p].host].skill = TRUE]
  /\ Advance(p)
  /\ UNCHANGED <<local, used, commands, faults, history>>

\* remove-host: each rm is tried, and one that fails is only logged.
Remove(p) ==
  LET h == run[p].host IN
  /\ run[p].step \in {"rm-binary", "rm-token", "rm-skill"}
  /\ remote' = [remote EXCEPT ![h] =
       CASE At(p, "rm-binary") -> [@ EXCEPT !.binary = "none"]
         [] At(p, "rm-token")  -> [@ EXCEPT !.token = None, !.open = FALSE]
         [] OTHER              -> [@ EXCEPT !.skill = FALSE]]
  /\ delivered' = IF At(p, "rm-token") THEN delivered \ {h} ELSE delivered
  /\ run' = [q \in Proc |-> IF q = p THEN After(run[p])
                            ELSE IF At(p, "rm-token") /\ q \in Others(p, h)
                            THEN [run[q] EXCEPT !.fresh = FALSE] ELSE run[q]]
  /\ UNCHANGED <<local, used, commands, faults, whole, clobbered>>

-----------------------------------------------------------------------------
(* ~/.ssh/config and config.toml: read, and later replaced by a rename. *)

ReadSSH(p) ==
  /\ At(p, "read-ssh")
  /\ run' = [run EXCEPT ![p] = [After(run[p]) EXCEPT !.file = Parse(ssh), !.outdated = @ \ {"ssh"}]]
  /\ UNCHANGED <<local, remote, used, commands, faults, history>>

\* WriteAtomic: the new file is renamed over whatever is there now.
WriteAtomic(p, file) ==
  /\ ssh' = file
  /\ clobbered' = (clobbered \/ "ssh" \in run[p].outdated)
  /\ run' = Outdate([run EXCEPT ![p] = [After(run[p]) EXCEPT !.file = <<>>]], p, "ssh")
  /\ UNCHANGED <<config, keychain, tokenFile, service, remote, used, commands, faults, whole, delivered>>

\* addSSHConfig, by add-host or doctor.
AddForward(p) ==
  LET r    == run[p]
      port == HostPort(r.cfg, r.host) IN
  /\ At(p, "write-ssh") /\ r.cmd # "remove-host"
  /\ ~Conflicts(r.file, r.host, port)
  /\ WriteAtomic(p, AddRemoteForward(r.file, r.host, port))

\* removeSSHConfig.
RemoveForward(p) ==
  LET r == run[p] IN
  /\ At(p, "write-ssh") /\ r.cmd = "remove-host"
  /\ WriteAtomic(p, RemoveRemoteForward(r.file, r.host, HostPort(r.cfg, r.host)))

\* init writes the defaults over what is there; the others write what they loaded,
\* with their change to one host.
Save(p) ==
  LET r == run[p] IN
  /\ At(p, "save")
  /\ config' = AfterCommand(r.cmd, r.cfg, r.host)
  /\ clobbered' = (clobbered \/ (r.host # None /\ "config" \in r.outdated))
  /\ run' = Outdate([run EXCEPT ![p] = After(r)], p, "config")
  /\ whole' = CASE r.host = None -> {}
               [] r.cmd = "add-host" /\ r.outdated = {} /\ Others(p, r.host) = {} ->
                    whole \cup {r.host}
               [] r.cmd = "update-token" /\ r.host \notin Hosts(r.cfg) -> whole \ {r.host}
               [] OTHER -> whole
  /\ delivered' = IF r.cmd \in {"add-host", "update-token"} /\ r.fresh
                  THEN delivered \cup {r.host} ELSE delivered
  /\ UNCHANGED <<keychain, tokenFile, service, ssh, remote, used, commands, faults>>

-----------------------------------------------------------------------------
(* The token and the service. *)

\* No delivery of an older token counts from now on.
Stale(runs) == [q \in Proc |-> IF runs[q] = Idle THEN Idle ELSE [runs[q] EXCEPT !.fresh = FALSE]]

\* A mistaken variant: the file gets a token of its own after the keychain failed.
StoreTwice(p) ==
  /\ At(p, "store")
  /\ used' = used + 2 /\ tokenFile' = used'
  /\ run' = Stale([run EXCEPT ![p] = After(run[p])])
  /\ delivered' = {}
  /\ UNCHANGED <<config, keychain, service, ssh, remote, commands, faults, whole, clobbered>>

\* The file is written in two steps where there is no keychain to fail: a command that
\* reads it in between, or that is left when this one fails or is killed, finds it torn.
Truncate(p) ==
  /\ At(p, "store") /\ (run[p].cmd = "init-no-keychain" \/ ~keychain.here)
  /\ tokenFile # Torn /\ tokenFile' = Torn
  /\ run' = Stale(run)
  /\ delivered' = {}
  /\ UNCHANGED <<config, keychain, service, ssh, remote, used, commands, faults, whole, clobbered>>

\* Store: the keychain if it is wanted and there, and the file if not or if that failed.
Store(p) ==
  LET keyring == run[p].cmd # "init-no-keychain" /\ keychain.here IN
  /\ At(p, "store")
  /\ used' = used + 1
  /\ \/ /\ keyring
        /\ keychain' = [keychain EXCEPT !.token = used']
        /\ UNCHANGED <<tokenFile, faults>>
     \/ /\ keyring => faults < MaxFaults
        /\ faults' = IF keyring THEN faults + 1 ELSE faults
        /\ tokenFile' = used'
        /\ UNCHANGED keychain
  /\ run' = Stale([run EXCEPT ![p] = After(run[p])])
  /\ delivered' = {}
  /\ UNCHANGED <<config, service, ssh, remote, commands, whole, clobbered>>

\* Delete: both are tried, whatever becomes of the first.
DeleteToken(p) ==
  /\ At(p, "delete-token")
  /\ \E kept \in SUBSET {"keychain", "file"} :
       /\ faults + Cardinality(kept) <= MaxFaults
       /\ faults' = faults + Cardinality(kept)
       /\ keychain' = IF "keychain" \in kept THEN keychain ELSE [keychain EXCEPT !.token = None]
       /\ tokenFile' = IF "file" \in kept THEN tokenFile ELSE None
  /\ run' = Stale([run EXCEPT ![p] = After(run[p])])
  /\ delivered' = {}
  /\ UNCHANGED <<config, service, ssh, remote, used, commands, whole, clobbered>>

\* The directory of the configuration holds the token file too, and os.RemoveAll removes
\* one file after the other, in any order.
RemoveEntry(p) ==
  /\ At(p, "delete-config")
  /\ \/ config # None /\ config' = None /\ UNCHANGED tokenFile
     \/ tokenFile # None /\ tokenFile' = None /\ UNCHANGED config
  /\ run' = Stale(Outdate(run, p, "config"))
  /\ whole' = {} /\ delivered' = {}
  /\ UNCHANGED <<keychain, service, ssh, remote, used, commands, faults, clobbered>>

\* What is left of it goes with the directory.
DeleteConfig(p) ==
  /\ At(p, "delete-config")
  /\ config' = None /\ tokenFile' = None
  /\ run' = Stale(Outdate([run EXCEPT ![p] = After(run[p])], p, "config"))
  /\ whole' = {} /\ delivered' = {}
  /\ UNCHANGED <<keychain, service, ssh, remote, used, commands, faults, clobbered>>

Service(p, state) ==
  /\ service' = state
  /\ Advance(p)
  /\ UNCHANGED <<config, keychain, tokenFile, ssh, remote, used, commands, faults, history>>

InstallUnit(p) == At(p, "install-unit") /\ Service(p, [service EXCEPT !.unit = TRUE])

\* To start a daemon that runs changes nothing; one that starts loads the configuration.
StartService(p) ==
  /\ At(p, "start") /\ service.unit
  /\ Service(p, [service EXCEPT !.port = IF @ = None THEN Load.port ELSE @])

RestartService(p) ==
  At(p, "restart") /\ service.unit /\ Service(p, [service EXCEPT !.port = Load.port])

StopService(p) == At(p, "stop") /\ Service(p, [service EXCEPT !.port = None])

\* It is stopped first.
RemoveUnit(p) == At(p, "remove-unit") /\ Service(p, [unit |-> FALSE, port |-> None])

-----------------------------------------------------------------------------
(* doctor --fix: the checks it can fix, of the keychain and of one host after the other. *)

\* The check asks Retrieve, which falls back to the file.
CheckKeychain(p) ==
  /\ At(p, "check-keychain")
  /\ run' = [run EXCEPT ![p] = [After(run[p]) EXCEPT
               !.todo = Hosts(run[p].cfg) \cup (IF Retrieve = None THEN {None} ELSE {})]]
  /\ UNCHANGED <<local, remote, used, commands, faults, history>>

\* The checks of a host; one that does not answer fails those over SSH that can be fixed.
ForwardMissing(cfg, h)    == ~HasRemoteForward(ssh, h, HostPort(cfg, h))
BinaryMissing(h, answers) == ~answers \/ remote[h].binary # "executable"
TokenOpen(h, answers)     == answers /\ remote[h].token # None /\ remote[h].open
SkillMissing(h, answers)  == ~answers \/ ~remote[h].skill

\* Their fixes.
FixForward    == <<"read-ssh", "write-ssh">>
FixBinary     == <<"copy-binary", "make-executable">>
FixTokenPerms == <<"private">>
FixSkill      == <<"copy-skill">>

\* RunHostChecks: first all checks, then a fix for each that failed.
Failing(cfg, h, answers) ==
  LET fixOf(failed, fix) == IF failed THEN <<fix>> ELSE <<>>
  IN fixOf(ForwardMissing(cfg, h), FixForward) \o fixOf(BinaryMissing(h, answers), FixBinary)
       \o fixOf(TokenOpen(h, answers), FixTokenPerms) \o fixOf(SkillMissing(h, answers), FixSkill)

CheckHost(p) ==
  LET r == run[p] IN
  /\ At(p, "check-host")
  /\ \/ \E h \in r.todo \ {None}, answers \in BOOLEAN :
          /\ ~answers => faults < MaxFaults
          /\ faults' = IF answers THEN faults ELSE faults + 1
          /\ run' = [run EXCEPT ![p] = NextFix([r EXCEPT
                       !.todo = @ \ {h}, !.host = h, !.calm = @ /\ answers,
                       !.fixes = Failing(r.cfg, h, answers)])]
     \/ /\ r.todo \subseteq {None}
        /\ run' = [run EXCEPT ![p] = IF r.todo = {} THEN Idle
                     ELSE [r EXCEPT !.step = "fix-keychain", !.todo = {}]]
        /\ UNCHANGED faults
  /\ UNCHANGED <<local, remote, used, commands, history>>

\* fixMissingKeychain: the token of the file, to the keychain if there is one.
FixKeychain(p) ==
  /\ At(p, "fix-keychain") /\ tokenFile # None
  /\ keychain' = IF keychain.here THEN [keychain EXCEPT !.token = tokenFile] ELSE keychain
  /\ Advance(p)
  /\ UNCHANGED <<config, tokenFile, service, ssh, remote, used, commands, faults, history>>

-----------------------------------------------------------------------------
(* Steps that fail. *)

Refused(p) ==
  LET r == run[p] IN
  \/ r.step \in {"copy-token", "fix-keychain"} /\ tokenFile = None
  \/ r.step = "make-executable" /\ remote[r.host].binary = "none"
  \/ r.step \in {"private", "verify"} /\ remote[r.host].token = None
  \/ r.step = "verify" /\ remote[r.host].open
  \/ r.step \in {"start", "restart"} /\ ~service.unit
  \/ /\ r.step = "write-ssh" /\ r.cmd # "remove-host"
     /\ Conflicts(r.file, r.host, HostPort(r.cfg, r.host))

\* remove-host and uninstall go on after most failures, doctor with its next fix.
AfterFailure(r) ==
  CASE r.cmd = "doctor-fix" -> NextFix([r EXCEPT !.file = <<>>])
    [] r.cmd = "remove-host" /\ r.step \in {"read-ssh", "write-ssh"} ->
         [r EXCEPT !.step = "save", !.left = <<>>, !.file = <<>>]
    [] r.cmd = "remove-host" /\ r.step \in {"rm-binary", "rm-token", "rm-skill"} -> After(r)
    [] r.cmd \in {"uninstall", "uninstall-keep-config"} /\ r.step # "delete-config" -> After(r)
    [] OTHER -> Idle

Fail(p) ==
  LET next == AfterFailure(run[p]) IN
  /\ run[p].step \notin {None, "check-host", "check-keychain"}
  /\ \/ Refused(p) /\ run' = [run EXCEPT ![p] = next] /\ UNCHANGED faults
     \/ /\ faults < MaxFaults /\ faults' = faults + 1
        /\ run' = [run EXCEPT ![p] = IF next = Idle THEN Idle ELSE [next EXCEPT !.calm = FALSE]]
  /\ UNCHANGED <<local, remote, used, commands, history>>

\* A copy of the token that breaks off, which ends the command.
BreakOff(p) ==
  LET h == run[p].host IN
  /\ At(p, "copy-token") /\ tokenFile # None
  /\ faults < MaxFaults /\ faults' = faults + 1
  /\ remote' = [remote EXCEPT ![h].token = Torn]
  /\ delivered' = delivered \ {h}
  /\ run' = [q \in Proc |-> IF q = p THEN Idle
                            ELSE IF q \in Others(p, h) THEN [run[q] EXCEPT !.fresh = FALSE]
                            ELSE run[q]]
  /\ UNCHANGED <<local, used, commands, whole, clobbered>>

Kill(p) ==
  /\ run[p] # Idle
  /\ faults < MaxFaults /\ faults' = faults + 1
  /\ run' = [run EXCEPT ![p] = Idle]
  /\ UNCHANGED <<local, remote, used, commands, history>>

-----------------------------------------------------------------------------
Next ==
  \E p \in Proc :
    \/ \E alias \in Alias :
         \/ \E tokenOnly \in BOOLEAN : RunAddHost(p, alias, tokenOnly)
         \/ RunRemoveHost(p, alias) \/ RunRevoke(p, alias)
    \/ \E keychainless \in BOOLEAN, port \in Port : RunInit(p, keychainless, port)
    \/ RunRotateToken(p) \/ RunDoctor(p)
    \/ \E keepConfig \in BOOLEAN : RunUninstall(p, keepConfig)
    \/ \E cmd \in {"start", "stop", "restart"} : RunService(p, cmd)
    \/ CopyBinary(p) \/ MakeExecutable(p) \/ CopyToken(p) \/ Private(p) \/ Verify(p)
    \/ CopySkill(p) \/ Remove(p) \/ ReadSSH(p) \/ AddForward(p) \/ RemoveForward(p) \/ Save(p)
    \/ Truncate(p) \/ Store(p) \/ DeleteToken(p) \/ RemoveEntry(p) \/ DeleteConfig(p)
    \/ InstallUnit(p) \/ StartService(p) \/ RestartService(p) \/ StopService(p)
    \/ RemoveUnit(p)
    \/ CheckKeychain(p) \/ CheckHost(p) \/ FixKeychain(p)
    \/ Fail(p) \/ BreakOff(p) \/ Kill(p)

Spec == Init /\ [][Next]_vars

-----------------------------------------------------------------------------
(* Properties. *)

\* The user's own settings in ~/.ssh/config stay, in their order and under their
\* headers, whatever commands edit the file at once (sshconfig/editor.go,
\* hostinstall.addSSHConfig and removeSSHConfig).
UserSettingsKept == [][UserSettings(ssh') = UserSettings(ssh)]_ssh

\* A host that add-host installed, not removed since and no later init or uninstall, is
\* in the configuration and its port is forwarded to the port of the configuration,
\* unless two commands changed one file at once: commands load, change and save whole
\* files without a lock (config.Load and Save, sshconfig.WriteAtomic).
HostIsForwarded ==
  ~clobbered => \A h \in whole : /\ h \in Hosts(Load)
                                 /\ HasRemoteForward(ssh, h, Load.port)

\* Without a keychain, a host that add-host reached after the token last changed
\* has the token the daemon accepts (TokenStore.Store and Retrieve, installTokenOnly).
DeliveredTokenIsAccepted ==
  ~keychain.here => \A h \in delivered : Accepts(remote[h].token)

\* rotate-token stores the new token in keychain and file, so that "add-host
\* --update-token-only" delivers it (cmd/pastelocal/main.go runRotateToken).
RotatedTokenReachesHosts == \A h \in delivered : Accepts(remote[h].token)

Healthy(cfg, h) ==
  /\ remote[h].binary = "executable" /\ ~remote[h].open /\ remote[h].skill
  /\ \/ HasRemoteForward(ssh, h, HostPort(cfg, h))
     \/ Conflicts(ssh, h, HostPort(cfg, h))

Succeeds(p, cmd, step) ==
  run[p].cmd = cmd /\ run[p].step = step /\ run'[p] = Idle /\ faults' = faults /\ run[p].calm

\* An add-host, or a doctor --fix, that ran alone and met no failure leaves no check of
\* doctor failing that doctor could have fixed (Installer.Install, RunHostChecks and
\* the fixes): every step was done, in an order in which the next did not undo it.
SuccessMeansHealthy ==
  [][\A p \in Proc :
       /\ Succeeds(p, "add-host", "save") =>
            /\ Healthy(config', run[p].host) /\ remote[run[p].host].token # None
            /\ ~Conflicts(ssh, run[p].host, HostPort(config', run[p].host))
       /\ Succeeds(p, "doctor-fix", "check-host") => \A h \in Hosts(Load) : Healthy(Load, h)
    ]_vars
=============================================================================
