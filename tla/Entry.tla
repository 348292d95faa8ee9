------------------------------- MODULE Entry -------------------------------
(***************************************************************************)
(* From a configuration to a session: what New accepts and fills in, how   *)
(* Run tells a test from a daemon by its environment, what a client hands  *)
(* to the daemon it spawns, and how both come to the same runtime file and *)
(* the same token (testcontainerd.go, tcdruntime/path.go, daemon.New,      *)
(* NewBundle, withAuth).                                                   *)
(*                                                                         *)
(* `go test' runs one binary per package, in the directory of the package  *)
(* and with a configuration of its own.  Test t may spawn one daemon, from *)
(* the same binary.  How a starter is chosen is the matter of `Discovery': *)
(* here a process starts a daemon if there is no file and no other boots.  *)
(*                                                                         *)
(* A string is its text between the blanks around it, and whether there    *)
(* are such blanks; the text of a project is a sequence of characters.     *)
(***************************************************************************)
EXTENDS Sequences, Integers

CONSTANTS
    Tests,              \* test processes
    Settings,           \* the configurations their binaries may have
    Characters,         \* what texts are made of; a word of a path counts as one
    Directories,        \* the directories they may run in
    Environments        \* what TCD_MODE and TCD_RUNTIME may be for them

Text == [text : Seq(Characters), padded : BOOLEAN]
Registration == [name : Text, starts : BOOLEAN]
\* `registers' is the function that New is given: what it answers depends on the
\* binary only, so that a test and its daemon get the same registrations.
Config == [project : Text, runtime : Text, token : Text, addr : Text,
           httpTimeout : Int, idleTTL : Int,
           registers : {"nil", "error", "ok"}, registrations : Seq(Registration)]

ASSUME EntryAssumption ==
    /\ Settings \subseteq Config
    /\ Environments \subseteq [mode : {"daemon", "none"}, runtime : Text]
    /\ {"temp", "default", "_"} \subseteq Characters

Blank(s) == s.text = <<>>                       \* strings.TrimSpace(s) == ""
Absent(s) == Blank(s) /\ ~s.padded              \* s == ""
Trim(s) == [text |-> s.text, padded |-> FALSE]
Empty == [text |-> <<>>, padded |-> FALSE]
Default == [text |-> <<"default">>, padded |-> FALSE]

Processes == [test : Tests, spawned : BOOLEAN]
Nobody == [daemon |-> "nobody"]

VARIABLES
    conf,               \* Config of a binary; it does not change
    dir,                \* working directory of a binary; it does not change
    environ,            \* TCD_MODE and TCD_RUNTIME of a process
    pc,
    path,               \* the RuntimePath a process works with
    written,            \* the runtime files
    server              \* the RuntimeInfo a client has read

vars == <<conf, dir, environ, pc, path, written, server>>

-----------------------------------------------------------------------------
(* Configurations.                                                         *)

\* The checks of the registrations, which New and NewBundle both make.
ValidRegistrations(regs) ==
    /\ regs # <<>>
    /\ \A i \in DOMAIN regs : ~Blank(regs[i].name) /\ regs[i].starts
    /\ \A i, j \in DOMAIN regs : i # j => Trim(regs[i].name) # Trim(regs[j].name)

New(c) ==
    /\ ~Blank(c.addr) /\ c.httpTimeout > 0 /\ c.idleTTL > 0
    /\ c.registers = "ok"
    /\ ValidRegistrations(c.registrations)
NewBundle(regs) == ValidRegistrations(regs)

\* Characters that a directory should not have become underscores.
Replaced == {"\\", "/", ":", " "}
sanitizeProject(project) ==
    IF Blank(project) THEN Default.text
    ELSE [i \in DOMAIN project.text |->
             IF project.text[i] \in Replaced THEN "_" ELSE project.text[i]]

\* A faulty variant, which only a mutant uses: one file for all projects.
DefaultRuntimePathOne(project) == [text |-> <<"temp">>, padded |-> FALSE]

\* A faulty variant, which only a mutant uses: beside the sources.
DefaultRuntimePathLocal(project) == [text |-> sanitizeProject(project), padded |-> FALSE]

\* In the directory for temporary files, of which there is one.
DefaultRuntimePath(project) ==
    [text |-> <<"temp">> \o sanitizeProject(project), padded |-> FALSE]

\* A faulty variant, which only a mutant uses: the default is for absent paths.
normalizeGlobalAbsent(c) ==
    [project |-> IF Blank(c.project) THEN Default ELSE Trim(c.project),
     runtime |-> IF Absent(c.runtime) THEN DefaultRuntimePath(c.project)
                                      ELSE Trim(c.runtime)]

normalizeGlobal(c) ==
    LET project == IF Blank(c.project) THEN Default ELSE Trim(c.project)
    IN  [project |-> project,
         runtime |-> IF Blank(c.runtime) THEN DefaultRuntimePath(project)
                                         ELSE Trim(c.runtime)]

\* A faulty variant, which only a mutant uses: what is there already stays.
mergeEnvKeep(inherited, runtime) ==
    [mode |-> "daemon",
     runtime |-> IF Absent(inherited.runtime) THEN runtime ELSE inherited.runtime]

\* mergeEnv: what the client sets wins over what it was started with.
mergeEnv(inherited, runtime) == [mode |-> "daemon", runtime |-> runtime]

-----------------------------------------------------------------------------
Test(t) == [test |-> t, spawned |-> FALSE]
DaemonOf(t) == [test |-> t, spawned |-> TRUE]

\* The file that a process reaches by its path.
File(p) ==
    IF path[p].text[1] \in {"temp", "root"} THEN path[p].text
                                            ELSE <<dir[p.test]>> \o path[p].text
At(f) == {info \in written : info.file = f}

\* daemon.New makes up a token if there is none.
Token(d) ==
    IF Absent(conf[d.test].token)
    THEN [text |-> <<"random", d.test, d.spawned>>, padded |-> FALSE]
    ELSE conf[d.test].token

\* A faulty variant, which only a mutant uses: the file has the token of the
\* configuration.
RuntimeInfoConfigured(d) ==
    [file |-> File(d), daemon |-> d, token |-> conf[d.test].token]

RuntimeInfo(d) == [file |-> File(d), daemon |-> d, token |-> Token(d)]

\* withAuth; what arrives of a header has no blanks around it.
Authorised(d, token) == ~Blank(token) /\ Trim(token) = Token(d)

ClientPCs == {"client", "waiting", "connected", "session", "unauthorised", "error", "done"}
DaemonPCs == {"daemon", "refused", "boot", "serving", "gone"}

\* Past New and Run a process has a path, without blanks around it.
TypeOK ==
    /\ conf \in [Tests -> Settings] /\ dir \in [Tests -> Directories]
    /\ pc \in [Processes -> ClientPCs \union DaemonPCs
                                      \union {"unborn", "new", "run", "rejected"}]
    /\ \A p \in Processes :
           LET born == pc[p] \in ClientPCs \union DaemonPCs
           IN  path[p].padded = FALSE /\ Blank(path[p]) = ~born
    /\ \A info \in written : info.daemon \in Processes
    /\ \A p \in Processes : server[p] = Nobody \/ server[p].daemon \in Processes

Init ==
    /\ conf \in [Tests -> Settings] /\ dir \in [Tests -> Directories]
    /\ \E e \in [Tests -> Environments] : environ = [p \in Processes |-> e[p.test]]
    /\ pc = [p \in Processes |-> IF p.spawned THEN "unborn" ELSE "new"]
    /\ path = [p \in Processes |-> Empty]
    /\ written = {} /\ server = [p \in Processes |-> Nobody]

To(p, where) == pc' = [pc EXCEPT ![p] = where]

-----------------------------------------------------------------------------
(* Every process of a binary.                                              *)

\* TestMain calls New, in a daemon as well.
Begin(p) ==
    /\ pc[p] = "new"
    /\ To(p, IF New(conf[p.test]) THEN "run" ELSE "rejected")
    /\ UNCHANGED <<conf, dir, environ, path, written, server>>

IsDaemon(p) == environ[p].mode = "daemon"

\* Run: runClientMode, or runDaemonMode with the path the environment gives it.
Run(p) ==
    /\ pc[p] = "run"
    /\ LET own == normalizeGlobal(conf[p.test]).runtime
           given == environ[p].runtime
       IN  path' = [path EXCEPT ![p] =
                        IF IsDaemon(p) /\ ~Blank(given) THEN Trim(given) ELSE own]
    /\ To(p, IF IsDaemon(p) THEN "daemon" ELSE "client")
    /\ UNCHANGED <<conf, dir, environ, written, server>>

-----------------------------------------------------------------------------
(* A client.                                                               *)

\* The runtime file is there, at once or after a wait.
Connect(c) ==
    /\ pc[c] \in {"client", "waiting"}
    /\ \E info \in At(File(c)) : server' = [server EXCEPT ![c] = info]
    /\ To(c, "connected")
    /\ UNCHANGED <<conf, dir, environ, path, written>>

\* buildDaemonCommand: the same binary again, in the same directory.
Spawn(c) ==
    /\ pc[c] = "client" /\ At(File(c)) = {}
    /\ \A q \in Processes : pc[q] = "waiting" => File(q) # File(c)
    /\ LET d == DaemonOf(c.test)
       IN  /\ pc[d] = "unborn"
           /\ pc' = [pc EXCEPT ![c] = "waiting", ![d] = "new"]
           /\ environ' = [environ EXCEPT ![d] = mergeEnv(environ[c], path[c])]
    /\ UNCHANGED <<conf, dir, path, written, server>>

\* No file appears: the daemon did not come so far, or the file is gone again.
WaitInVain(c) ==
    /\ pc[c] = "waiting" /\ At(File(c)) = {}
    /\ pc[DaemonOf(c.test)] \in {"rejected", "refused", "serving", "gone"}
    /\ To(c, "error")
    /\ UNCHANGED <<conf, dir, environ, path, written, server>>

\* The first request, with the token of the file.
Acquire(c) ==
    /\ pc[c] = "connected"
    /\ LET d == server[c].daemon
       IN  To(c, IF pc[d] # "serving" THEN "error"
                 ELSE IF Authorised(d, server[c].token) THEN "session" ELSE "unauthorised")
    /\ UNCHANGED <<conf, dir, environ, path, written, server>>

Release(c) ==
    /\ pc[c] = "session"
    /\ To(c, "done")
    /\ UNCHANGED <<conf, dir, environ, path, written, server>>

-----------------------------------------------------------------------------
(* A daemon.                                                               *)

\* daemon.New: a bundle of the registrations.
NewDaemon(d) ==
    /\ pc[d] = "daemon"
    /\ To(d, IF NewBundle(conf[d.test].registrations) THEN "boot" ELSE "refused")
    /\ UNCHANGED <<conf, dir, environ, path, written, server>>

\* The end of a Start that succeeds: the file is there.
Serve(d) ==
    /\ pc[d] = "boot"
    /\ written' = (written \ At(File(d))) \union {RuntimeInfo(d)}
    /\ To(d, "serving")
    /\ UNCHANGED <<conf, dir, environ, path, server>>

\* Idle or told to go, it removes the file.
Exit(d) ==
    /\ pc[d] = "serving"
    /\ \A c \in Processes : pc[c] = "session" => server[c].daemon # d
    /\ written' = written \ At(File(d))
    /\ To(d, "gone")
    /\ UNCHANGED <<conf, dir, environ, path, server>>

-----------------------------------------------------------------------------
Next ==
    \E p \in Processes :
        \/ Begin(p) \/ Run(p)
        \/ Connect(p) \/ Spawn(p) \/ WaitInVain(p) \/ Acquire(p) \/ Release(p)
        \/ NewDaemon(p) \/ Serve(p) \/ Exit(p)

Spec == Init /\ [][Next]_vars

-----------------------------------------------------------------------------
(* Properties.                                                             *)

\* The process that a client spawns serves at the file this client waits for: what
\* the client accepted no check of the daemon refuses, and it never takes itself
\* for a test, whatever environment and directory the client was started in.
SpawnedServes ==
    \A t \in Tests :
        /\ pc[DaemonOf(t)] \notin ClientPCs \union {"rejected", "refused"}
        /\ path[DaemonOf(t)] # Empty => File(DaemonOf(t)) = File(Test(t))

\* The path comes from the project of the configuration, and from nothing else.
Derived(p) ==
    /\ path[p] # Empty /\ Blank(conf[p.test].runtime)
    /\ p.spawned \/ ~IsDaemon(p) \/ Blank(environ[p].runtime)
Project(p) == normalizeGlobal(conf[p.test]).project.text
Plain(name) == \A i \in DOMAIN name : name[i] \notin Replaced \union {"_"}

\* All packages of a project come to one file, and so to one daemon, in whatever
\* directory they run and with whatever blanks they write the name.
ProjectShares ==
    \A p, q \in Processes :
        Derived(p) /\ Derived(q) /\ Project(p) = Project(q) => File(p) = File(q)

\* The tests of a project never get the daemon of another, if the names have none of
\* the characters that sanitizeProject replaces or puts in their place.
ProjectsApart ==
    \A c \in Processes :
        pc[c] = "session" =>
            LET d == server[c].daemon
            IN  Derived(c) /\ Derived(d) /\ Plain(Project(c)) /\ Plain(Project(d))
                    => Project(c) = Project(d)

\* A client is turned away only if the token that is configured for the daemon has
\* blanks around it, which withAuth never accepts: not for a token the daemon made
\* up, nor because the client's own configuration has another.
TokenAccepted ==
    \A c \in Processes :
        pc[c] = "unauthorised" => conf[server[c].daemon.test].token.padded

=============================================================================
