---------------------------- MODULE EntryProofs ----------------------------
(***************************************************************************)
(* Proofs about `Entry', for every set of tests, configurations,           *)
(* directories and environments: whatever the strings are, a test and the  *)
(* daemon it spawns come to one path, from the project or the              *)
(* configuration alone, and what a client reads is what a daemon wrote.    *)
(***************************************************************************)
EXTENDS Entry, SequenceTheorems, TLAPS

-----------------------------------------------------------------------------
(* What becomes of strings and paths.                                      *)

\* A path as Run needs it.
Usable(s) == s \in Text /\ s.text # <<>> /\ s.padded = FALSE

LEMMA TrimIsText ==
    ASSUME NEW s \in Text
    PROVE  /\ Trim(s) \in Text /\ Trim(s).text = s.text /\ Trim(s).padded = FALSE
           /\ ~Blank(s) => Usable(Trim(s))
           /\ s.padded = FALSE => Trim(s) = s
    BY DEF Trim, Text, Blank, Usable

LEMMA OneCharacter ==
    ASSUME NEW x \in Characters
    PROVE  <<x>> \in Seq(Characters) /\ Len(<<x>>) = 1 /\ <<x>>[1] = x
    OBVIOUS

LEMMA SanitizedIsText ==
    ASSUME NEW project \in Text
    PROVE  /\ sanitizeProject(project) \in Seq(Characters)
           /\ ~Blank(project) /\ Plain(project.text) => sanitizeProject(project) = project.text
<1> DEFINE replaced(i) == IF project.text[i] \in Replaced THEN "_" ELSE project.text[i]
<1>0. "default" \in Characters /\ "_" \in Characters
    BY EntryAssumption
<1>1. project.text \in Seq(Characters)
    BY DEF Text
<1>2. DOMAIN project.text = 1 .. Len(project.text) /\ Len(project.text) \in Nat
    BY <1>1
<1>3. \A i \in 1 .. Len(project.text) : replaced(i) \in Characters
    <2> SUFFICES ASSUME NEW i \in 1 .. Len(project.text) PROVE replaced(i) \in Characters
        OBVIOUS
    <2>1. project.text[i] \in Characters
        BY <1>1
    <2> QED
        BY <1>0, <2>1
<1> HIDE DEF replaced
<1>4. [i \in 1 .. Len(project.text) |-> replaced(i)] \in Seq(Characters)
    BY <1>2, <1>3, IsASeq
<1>5. Default.text \in Seq(Characters)
    <2>1. <<"default">> \in Seq(Characters)
        BY <1>0, OneCharacter
    <2>2. Default.text = <<"default">>
        BY DEF Default
    <2> QED
        BY <2>1, <2>2
<1> USE DEF replaced
<1>6. sanitizeProject(project) \in Seq(Characters)
    BY <1>2, <1>4, <1>5 DEF sanitizeProject
<1>7. ASSUME ~Blank(project), Plain(project.text)
      PROVE  sanitizeProject(project) = project.text
    <2>1. sanitizeProject(project) = [i \in DOMAIN project.text |-> replaced(i)]
        BY <1>7 DEF sanitizeProject
    <2>2. \A i \in DOMAIN project.text : replaced(i) = project.text[i]
        BY <1>7 DEF Plain
    <2>3. project.text = [i \in DOMAIN project.text |-> project.text[i]]
        BY <1>1
    <2> QED
        BY <2>1, <2>2, <2>3
<1> QED
    BY <1>6, <1>7

\* Paths made from projects begin with the directory for temporary files, and those
\* of different sanitized names differ.
LEMMA DefaultPath ==
    ASSUME NEW project \in Text
    PROVE  /\ Usable(DefaultRuntimePath(project))
           /\ DefaultRuntimePath(project).text[1] = "temp"
<1>0. "temp" \in Characters
    BY EntryAssumption
<1>1. <<"temp">> \in Seq(Characters) /\ Len(<<"temp">>) = 1 /\ <<"temp">>[1] = "temp"
    BY <1>0, OneCharacter
<1>2. sanitizeProject(project) \in Seq(Characters)
    BY SanitizedIsText
<1> DEFINE t == <<"temp">> \o sanitizeProject(project)
<1>3. t \in Seq(Characters) /\ Len(t) = 1 + Len(sanitizeProject(project)) /\ t[1] = "temp"
    <2>1. Len(sanitizeProject(project)) \in Nat
        BY <1>2
    <2> QED
        BY <1>1, <1>2, <2>1, ConcatProperties
<1>4. t # <<>>
    BY <1>2, <1>3
<1> QED
    BY <1>3, <1>4 DEF DefaultRuntimePath, Usable, Text

LEMMA TempCancels ==
    ASSUME NEW s \in Seq(Characters), NEW t \in Seq(Characters), <<"temp">> \o s = <<"temp">> \o t
    PROVE  s = t
<1>0. "temp" \in Characters
    BY EntryAssumption
<1>1. <<"temp">> \in Seq(Characters) /\ Len(<<"temp">>) = 1
    BY <1>0, OneCharacter
<1>2. Len(s) \in Nat /\ Len(t) \in Nat
    OBVIOUS
<1>3. /\ Len(<<"temp">> \o s) = 1 + Len(s)
      /\ \A i \in 1 .. 1 + Len(s) :
             (<<"temp">> \o s)[i] = IF i <= 1 THEN <<"temp">>[i] ELSE s[i - 1]
    BY <1>1, ConcatProperties
<1>4. /\ Len(<<"temp">> \o t) = 1 + Len(t)
      /\ \A i \in 1 .. 1 + Len(t) :
             (<<"temp">> \o t)[i] = IF i <= 1 THEN <<"temp">>[i] ELSE t[i - 1]
    BY <1>1, ConcatProperties
<1>5. Len(s) = Len(t)
    BY <1>2, <1>3, <1>4
<1>6. ASSUME NEW i \in 1 .. Len(s) PROVE s[i] = t[i]
    <2>1. i + 1 \in 1 .. 1 + Len(s) /\ ~(i + 1 <= 1) /\ i + 1 - 1 = i
        BY <1>2
    <2>2. (<<"temp">> \o s)[i + 1] = s[i + 1 - 1]
        BY <1>3, <2>1
    <2>3. (<<"temp">> \o t)[i + 1] = t[i + 1 - 1]
        BY <1>4, <1>5, <2>1
    <2> QED
        BY <2>1, <2>2, <2>3
<1> QED
    BY <1>5, <1>6, SeqEqual

\* What Run works with if no environment tells it otherwise.
OwnPath(t) == normalizeGlobal(conf[t]).runtime

LEMMA Normalized ==
    ASSUME NEW c \in Config
    PROVE  /\ Usable(normalizeGlobal(c).project)
           /\ Usable(normalizeGlobal(c).runtime)
           /\ Blank(c.runtime) =>
                  normalizeGlobal(c).runtime = DefaultRuntimePath(normalizeGlobal(c).project)
<1>1. c.project \in Text /\ c.runtime \in Text
    BY DEF Config
<1>0. "default" \in Characters
    BY EntryAssumption
<1>2. Usable(Default)
    BY <1>0 DEF Usable, Default, Text
<1>3. Usable(normalizeGlobal(c).project)
    BY <1>1, <1>2, TrimIsText DEF normalizeGlobal
<1>4. Usable(DefaultRuntimePath(normalizeGlobal(c).project))
    BY <1>3, DefaultPath DEF Usable
<1> QED
    BY <1>1, <1>3, <1>4, TrimIsText DEF normalizeGlobal

-----------------------------------------------------------------------------
(* The invariant.                                                          *)

AllPCs == ClientPCs \union DaemonPCs \union {"unborn", "new", "run", "rejected"}
Past(p) == pc[p] \in ClientPCs \union DaemonPCs

RangeInv ==
    /\ conf \in [Tests -> Settings] /\ dir \in [Tests -> Directories]
    /\ pc \in [Processes -> AllPCs]
    /\ path \in [Processes -> Text]
    /\ environ \in [Processes -> [mode : {"daemon", "none"}, runtime : Text]]
    /\ DOMAIN server = Processes

\* A path is there from Run on.
PathInv ==
    \A p \in Processes : IF Past(p) THEN Usable(path[p]) ELSE path[p] = Empty

\* Where a test is, and what it made of its environment.
TestInv ==
    \A t \in Tests :
        LET c == Test(t) IN
        /\ pc[c] \notin {"unborn", "refused"}
        /\ pc[c] \notin {"new", "rejected"} => New(conf[t])
        /\ pc[c] \in ClientPCs => ~IsDaemon(c) /\ path[c] = OwnPath(t)
        /\ pc[c] \in DaemonPCs =>
               /\ IsDaemon(c)
               /\ Blank(environ[c].runtime) => path[c] = OwnPath(t)

\* A spawned process follows the client that spawned it.
SpawnInv ==
    \A t \in Tests :
        LET c == Test(t)  d == DaemonOf(t) IN
        /\ pc[d] \in {"unborn", "new", "run"} \union (DaemonPCs \ {"refused"})
        /\ pc[d] # "unborn" =>
               pc[c] \in ClientPCs /\ IsDaemon(d) /\ environ[d].runtime = path[c]
        /\ pc[d] \in DaemonPCs => path[d] = path[c]

\* What is in a file is what a daemon that has served wrote into it.
Written(info) ==
    /\ info.daemon \in Processes /\ pc[info.daemon] \in DaemonPCs
    /\ info.file = File(info.daemon) /\ info.token = Token(info.daemon)
FileInv == \A info \in written : Written(info)
ReadPCs == {"connected", "session", "unauthorised", "done"}
ReadInv ==
    \A p \in Processes :
        /\ server[p] = Nobody \/ server[p].daemon \in Processes
        /\ pc[p] \in ReadPCs => Written(server[p]) /\ server[p].file = File(p)

EntryInv == RangeInv /\ PathInv /\ TestInv /\ SpawnInv /\ FileInv /\ ReadInv /\ TokenAccepted

-----------------------------------------------------------------------------
(* What a step may change.                                                 *)

\* A process is a test or the one that it may spawn.
LEMMA Kinds ==
    /\ \A p \in Processes : p.test \in Tests /\ (p = Test(p.test) \/ p = DaemonOf(p.test))
    /\ \A t \in Tests : Test(t) \in Processes /\ Test(t).test = t
    /\ \A t \in Tests : DaemonOf(t) \in Processes /\ DaemonOf(t).test = t
    /\ \A t, u \in Tests : Test(t) # DaemonOf(u)
<1>1. \A p \in Processes : p.test \in Tests /\ (p = Test(p.test) \/ p = DaemonOf(p.test))
    BY DEF Processes, Test, DaemonOf
<1>2. \A t \in Tests : Test(t) \in Processes /\ Test(t).test = t
    BY DEF Processes, Test
<1>3. \A t \in Tests : DaemonOf(t) \in Processes /\ DaemonOf(t).test = t
    BY DEF Processes, DaemonOf
<1>4. \A t, u \in Tests : Test(t) # DaemonOf(u)
    <2> SUFFICES ASSUME NEW t \in Tests, NEW u \in Tests, Test(t) = DaemonOf(u) PROVE FALSE
        OBVIOUS
    <2>1. Test(t).spawned = FALSE /\ DaemonOf(u).spawned = TRUE
        BY DEF Test, DaemonOf
    <2> QED
        BY <2>1
<1> QED
    BY <1>1, <1>2, <1>3, <1>4

LEMMA RangeStep ==
    ASSUME RangeInv, PathInv, [Next]_vars
    PROVE  RangeInv'
<1> USE DEF RangeInv, AllPCs, ClientPCs, DaemonPCs
<1> USE EntryAssumption
<1>1. ASSUME NEW p \in Processes, Begin(p) PROVE RangeInv'
    BY <1>1 DEF Begin, To
<1>2. ASSUME NEW p \in Processes, Run(p) PROVE RangeInv'
    <2>1. conf[p.test] \in Config /\ environ[p].runtime \in Text
        BY Kinds
    <2>2. normalizeGlobal(conf[p.test]).runtime \in Text
        BY <2>1, Normalized DEF Usable
    <2>3. path'[p] \in Text
        BY <1>2, <2>1, <2>2, TrimIsText DEF Run
    <2>4. path' = [path EXCEPT ![p] = path'[p]]
        BY <1>2 DEF Run
    <2> QED
        BY <1>2, <2>3, <2>4 DEF Run, To
<1>3. ASSUME NEW p \in Processes, Connect(p) PROVE RangeInv'
    BY <1>3 DEF Connect, To
<1>4. ASSUME NEW p \in Processes, Spawn(p) PROVE RangeInv'
    <2>1. DaemonOf(p.test) \in Processes /\ path[p] \in Text
        BY Kinds
    <2>2. mergeEnv(environ[p], path[p]) \in [mode : {"daemon", "none"}, runtime : Text]
        BY <2>1 DEF mergeEnv
    <2> QED
        BY <1>4, <2>1, <2>2 DEF Spawn
<1>5. ASSUME NEW p \in Processes, WaitInVain(p) PROVE RangeInv'
    BY <1>5 DEF WaitInVain, To
<1>6. ASSUME NEW p \in Processes, Acquire(p) PROVE RangeInv'
    BY <1>6 DEF Acquire, To
<1>7. ASSUME NEW p \in Processes, Release(p) PROVE RangeInv'
    BY <1>7 DEF Release, To
<1>8. ASSUME NEW p \in Processes, NewDaemon(p) PROVE RangeInv'
    BY <1>8 DEF NewDaemon, To
<1>9. ASSUME NEW p \in Processes, Serve(p) PROVE RangeInv'
    BY <1>9 DEF Serve, To
<1>10. ASSUME NEW p \in Processes, Exit(p) PROVE RangeInv'
    BY <1>10 DEF Exit, To
<1>11. CASE UNCHANGED vars
    BY <1>11 DEF vars
<1> QED
    BY <1>1, <1>2, <1>3, <1>4, <1>5, <1>6, <1>7, <1>8, <1>9, <1>10, <1>11 DEF Next

\* Who has come so far stays a client or a daemon, with path and environment.
LEMMA PastStays ==
    ASSUME RangeInv, [Next]_vars
    PROVE  /\ conf' = conf /\ dir' = dir
           /\ \A q \in Processes :
                  /\ pc[q] \in ClientPCs => pc'[q] \in ClientPCs
                  /\ pc[q] \in DaemonPCs => pc'[q] \in DaemonPCs
                  /\ pc[q] # "unborn" => pc'[q] # "unborn" /\ environ'[q] = environ[q]
                  /\ Past(q) => path'[q] = path[q]
<1> DEFINE Goal ==
        /\ conf' = conf /\ dir' = dir
        /\ \A q \in Processes :
               /\ pc[q] \in ClientPCs => pc'[q] \in ClientPCs
               /\ pc[q] \in DaemonPCs => pc'[q] \in DaemonPCs
               /\ pc[q] # "unborn" => pc'[q] # "unborn" /\ environ'[q] = environ[q]
               /\ Past(q) => path'[q] = path[q]
<1> SUFFICES Goal
    OBVIOUS
<1> USE DEF RangeInv, AllPCs, ClientPCs, DaemonPCs, Past
<1>1. ASSUME NEW p \in Processes, Begin(p) PROVE Goal
    BY <1>1 DEF Begin, To
<1>2. ASSUME NEW p \in Processes, Run(p) PROVE Goal
    BY <1>2 DEF Run, To
<1>3. ASSUME NEW p \in Processes, Connect(p) PROVE Goal
    BY <1>3 DEF Connect, To
<1>4. ASSUME NEW p \in Processes, Spawn(p) PROVE Goal
    <2>1. DaemonOf(p.test) \in Processes
        BY Kinds
    <2> QED
        BY <1>4, <2>1 DEF Spawn
<1>5. ASSUME NEW p \in Processes, WaitInVain(p) PROVE Goal
    BY <1>5 DEF WaitInVain, To
<1>6. ASSUME NEW p \in Processes, Acquire(p) PROVE Goal
    BY <1>6 DEF Acquire, To
<1>7. ASSUME NEW p \in Processes, Release(p) PROVE Goal
    BY <1>7 DEF Release, To
<1>8. ASSUME NEW p \in Processes, NewDaemon(p) PROVE Goal
    BY <1>8 DEF NewDaemon, To
<1>9. ASSUME NEW p \in Processes, Serve(p) PROVE Goal
    BY <1>9 DEF Serve, To
<1>10. ASSUME NEW p \in Processes, Exit(p) PROVE Goal
    BY <1>10 DEF Exit, To
<1>11. CASE UNCHANGED vars
    BY <1>11 DEF vars
<1> QED
    BY <1>1, <1>2, <1>3, <1>4, <1>5, <1>6, <1>7, <1>8, <1>9, <1>10, <1>11 DEF Next

LEMMA PathStep ==
    ASSUME RangeInv, PathInv, [Next]_vars
    PROVE  PathInv'
<1> USE DEF RangeInv, AllPCs, ClientPCs, DaemonPCs, Past, PathInv
<1> USE EntryAssumption
<1>1. ASSUME NEW p \in Processes, Begin(p) PROVE PathInv'
    BY <1>1 DEF Begin, To
<1>2. ASSUME NEW p \in Processes, Run(p) PROVE PathInv'
    <2>1. conf[p.test] \in Config /\ environ[p].runtime \in Text
        BY Kinds
    <2>2. Usable(path'[p])
        BY <1>2, <2>1, Normalized, TrimIsText DEF Run
    <2>3. /\ pc'[p] \in {"daemon", "client"}
          /\ \A q \in Processes : q # p => path'[q] = path[q] /\ pc'[q] = pc[q]
        BY <1>2 DEF Run, To
    <2> QED
        BY <2>2, <2>3
<1>3. ASSUME NEW p \in Processes, Connect(p) PROVE PathInv'
    BY <1>3 DEF Connect, To
<1>4. ASSUME NEW p \in Processes, Spawn(p) PROVE PathInv'
    <2>1. DaemonOf(p.test) \in Processes
        BY Kinds
    <2> QED
        BY <1>4, <2>1 DEF Spawn
<1>5. ASSUME NEW p \in Processes, WaitInVain(p) PROVE PathInv'
    BY <1>5 DEF WaitInVain, To
<1>6. ASSUME NEW p \in Processes, Acquire(p) PROVE PathInv'
    BY <1>6 DEF Acquire, To
<1>7. ASSUME NEW p \in Processes, Release(p) PROVE PathInv'
    BY <1>7 DEF Release, To
<1>8. ASSUME NEW p \in Processes, NewDaemon(p) PROVE PathInv'
    BY <1>8 DEF NewDaemon, To
<1>9. ASSUME NEW p \in Processes, Serve(p) PROVE PathInv'
    BY <1>9 DEF Serve, To
<1>10. ASSUME NEW p \in Processes, Exit(p) PROVE PathInv'
    BY <1>10 DEF Exit, To
<1>11. CASE UNCHANGED vars
    BY <1>11 DEF vars
<1> QED
    BY <1>1, <1>2, <1>3, <1>4, <1>5, <1>6, <1>7, <1>8, <1>9, <1>10, <1>11 DEF Next

\* New and Run of a test; everything later only moves it on.
LEMMA TestStep ==
    ASSUME RangeInv, TestInv, SpawnInv, [Next]_vars
    PROVE  TestInv'
<1> DEFINE Right(t) ==
        LET c == Test(t) IN
        /\ pc[c] \notin {"unborn", "refused"}
        /\ pc[c] \notin {"new", "rejected"} => New(conf[t])
        /\ pc[c] \in ClientPCs => ~IsDaemon(c) /\ path[c] = OwnPath(t)
        /\ pc[c] \in DaemonPCs =>
               /\ IsDaemon(c)
               /\ Blank(environ[c].runtime) => path[c] = OwnPath(t)
<1> SUFFICES ASSUME NEW t \in Tests PROVE Right(t)'
    BY DEF TestInv
<1>0. Right(t) /\ Test(t) \in Processes /\ Test(t).test = t
    BY Kinds DEF TestInv
<1>s. conf' = conf /\ OwnPath(t)' = OwnPath(t)
    BY PastStays DEF OwnPath
<1>e. environ'[Test(t)] = environ[Test(t)]
    BY <1>0, PastStays
<1> USE DEF RangeInv, AllPCs, ClientPCs, DaemonPCs
<1>a. ASSUME pc'[Test(t)] = pc[Test(t)], path'[Test(t)] = path[Test(t)] PROVE Right(t)'
    BY <1>0, <1>s, <1>e, <1>a DEF IsDaemon
<1>1. ASSUME NEW p \in Processes, Begin(p) PROVE Right(t)'
    BY <1>0, <1>s, <1>a, <1>1 DEF Begin, To
<1>2. ASSUME NEW p \in Processes, Run(p) PROVE Right(t)'
    <2>1. CASE p = Test(t)
        <3>1. pc'[p] = (IF IsDaemon(p) THEN "daemon" ELSE "client") /\ pc[p] = "run"
            BY <1>2 DEF Run, To
        <3>2. path'[p] = IF IsDaemon(p) /\ ~Blank(environ[p].runtime)
                         THEN Trim(environ[p].runtime) ELSE OwnPath(t)
            BY <1>2, <1>0, <2>1 DEF Run, OwnPath
        <3> QED
            BY <1>0, <1>s, <1>e, <2>1, <3>1, <3>2 DEF IsDaemon
    <2>2. CASE p # Test(t)
        BY <1>0, <1>a, <1>2, <2>2 DEF Run, To
    <2> QED
        BY <2>1, <2>2
<1>3. ASSUME NEW p \in Processes, Connect(p) PROVE Right(t)'
    BY <1>0, <1>s, <1>e, <1>3 DEF Connect, To, IsDaemon
<1>4. ASSUME NEW p \in Processes, Spawn(p) PROVE Right(t)'
    <2>1. DaemonOf(p.test) # Test(t) /\ path' = path
        BY <1>4, Kinds DEF Spawn
    <2>2. pc'[Test(t)] = pc[Test(t)] \/ (p = Test(t) /\ pc[p] = "client" /\ pc'[p] = "waiting")
        BY <1>4, <1>0, <2>1 DEF Spawn
    <2> QED
        BY <1>0, <1>s, <1>e, <1>a, <2>1, <2>2 DEF IsDaemon
<1>5. ASSUME NEW p \in Processes, WaitInVain(p) PROVE Right(t)'
    BY <1>0, <1>s, <1>e, <1>5 DEF WaitInVain, To, IsDaemon
<1>6. ASSUME NEW p \in Processes, Acquire(p) PROVE Right(t)'
    BY <1>0, <1>s, <1>e, <1>6 DEF Acquire, To, IsDaemon
<1>7. ASSUME NEW p \in Processes, Release(p) PROVE Right(t)'
    BY <1>0, <1>s, <1>e, <1>7 DEF Release, To, IsDaemon
<1>8. ASSUME NEW p \in Processes, NewDaemon(p) PROVE Right(t)'
    <2>1. New(conf[t]) => NewBundle(conf[t].registrations)
        BY DEF New, NewBundle
    <2> QED
        BY <1>0, <1>s, <1>e, <1>8, <2>1 DEF NewDaemon, To, IsDaemon
<1>9. ASSUME NEW p \in Processes, Serve(p) PROVE Right(t)'
    BY <1>0, <1>s, <1>e, <1>9 DEF Serve, To, IsDaemon
<1>10. ASSUME NEW p \in Processes, Exit(p) PROVE Right(t)'
    BY <1>0, <1>s, <1>e, <1>10 DEF Exit, To, IsDaemon
<1>11. CASE UNCHANGED vars
    BY <1>0, <1>s, <1>e, <1>11 DEF vars, IsDaemon
<1> QED
    BY <1>1, <1>2, <1>3, <1>4, <1>5, <1>6, <1>7, <1>8, <1>9, <1>10, <1>11 DEF Next

\* The daemon gets the path of its client and comes to no other.
LEMMA SpawnStep ==
    ASSUME RangeInv, PathInv, TestInv, SpawnInv, [Next]_vars
    PROVE  SpawnInv'
<1> DEFINE Right(t) ==
        LET c == Test(t)  d == DaemonOf(t) IN
        /\ pc[d] \in {"unborn", "new", "run"} \union (DaemonPCs \ {"refused"})
        /\ pc[d] # "unborn" =>
               pc[c] \in ClientPCs /\ IsDaemon(d) /\ environ[d].runtime = path[c]
        /\ pc[d] \in DaemonPCs => path[d] = path[c]
<1> SUFFICES ASSUME NEW t \in Tests PROVE Right(t)'
    BY DEF SpawnInv
<1>0. /\ Right(t) /\ Test(t) \in Processes /\ DaemonOf(t) \in Processes
      /\ Test(t) # DaemonOf(t) /\ DaemonOf(t).test = t /\ Test(t).test = t
    BY Kinds DEF SpawnInv
<1>c. pc[Test(t)] \in ClientPCs =>
          pc'[Test(t)] \in ClientPCs /\ path'[Test(t)] = path[Test(t)] /\ New(conf[t])
      /\ Usable(path[Test(t)])
    BY <1>0, PastStays DEF Past, TestInv, PathInv, ClientPCs
<1>d. pc[DaemonOf(t)] # "unborn" => environ'[DaemonOf(t)] = environ[DaemonOf(t)]
    BY <1>0, PastStays
<1> USE DEF RangeInv, AllPCs, DaemonPCs
<1>a. ASSUME pc'[DaemonOf(t)] = pc[DaemonOf(t)], path'[DaemonOf(t)] = path[DaemonOf(t)]
      PROVE  Right(t)'
    BY <1>0, <1>c, <1>d, <1>a DEF IsDaemon
<1>b. ASSUME pc[DaemonOf(t)] \in DaemonPCs, pc'[DaemonOf(t)] \in DaemonPCs \ {"refused"},
             path'[DaemonOf(t)] = path[DaemonOf(t)]
      PROVE  Right(t)'
    BY <1>0, <1>c, <1>d, <1>b DEF IsDaemon
<1>1. ASSUME NEW p \in Processes, Begin(p) PROVE Right(t)'
    <2>1. CASE p = DaemonOf(t)
        <3>1. pc[p] = "new" /\ pc'[p] = "run" /\ path' = path
            BY <1>1, <1>0, <1>c, <2>1 DEF Begin, To
        <3> QED
            BY <1>0, <1>c, <1>d, <2>1, <3>1 DEF IsDaemon
    <2>2. CASE p # DaemonOf(t)
        BY <1>1, <1>0, <1>a, <2>2 DEF Begin, To
    <2> QED
        BY <2>1, <2>2
<1>2. ASSUME NEW p \in Processes, Run(p) PROVE Right(t)'
    <2>1. CASE p = DaemonOf(t)
        <3>1. pc[p] = "run" /\ IsDaemon(p) /\ environ[p].runtime = path[Test(t)]
            BY <1>2, <1>0, <2>1 DEF Run
        <3>2. ~Blank(environ[p].runtime) /\ Trim(environ[p].runtime) = path[Test(t)]
            BY <1>0, <1>c, <2>1, <3>1, TrimIsText DEF Usable, Blank
        <3>3. pc'[p] = "daemon" /\ path'[p] = path[Test(t)]
            BY <1>2, <3>1, <3>2 DEF Run, To
        <3> QED
            BY <1>0, <1>c, <1>d, <2>1, <3>1, <3>3 DEF IsDaemon
    <2>2. CASE p # DaemonOf(t)
        BY <1>2, <1>0, <1>a, <2>2 DEF Run, To
    <2> QED
        BY <2>1, <2>2
<1>3. ASSUME NEW p \in Processes, Connect(p) PROVE Right(t)'
    BY <1>0, <1>a, <1>b, <1>3 DEF Connect, To, ClientPCs
<1>4. ASSUME NEW p \in Processes, Spawn(p) PROVE Right(t)'
    <2>1. p = Test(p.test) /\ p.test \in Tests
        BY <1>4, Kinds DEF Spawn, SpawnInv
    <2>2. CASE p.test = t
        <3>1. /\ pc[p] = "client" /\ pc'[p] = "waiting" /\ pc'[DaemonOf(t)] = "new" /\ path' = path
              /\ environ'[DaemonOf(t)] = mergeEnv(environ[p], path[p])
            BY <1>4, <1>0, <2>1, <2>2 DEF Spawn
        <3> QED
            BY <1>0, <2>1, <2>2, <3>1 DEF IsDaemon, mergeEnv, ClientPCs
    <2>3. CASE p.test # t
        <3>1. DaemonOf(p.test) # DaemonOf(t) /\ p # DaemonOf(t)
            BY <2>1, <2>3, Kinds
        <3> QED
            BY <1>4, <1>0, <1>a, <3>1 DEF Spawn
    <2> QED
        BY <2>2, <2>3
<1>5. ASSUME NEW p \in Processes, WaitInVain(p) PROVE Right(t)'
    BY <1>0, <1>a, <1>b, <1>5 DEF WaitInVain, To, ClientPCs
<1>6. ASSUME NEW p \in Processes, Acquire(p) PROVE Right(t)'
    BY <1>0, <1>a, <1>b, <1>6 DEF Acquire, To, ClientPCs
<1>7. ASSUME NEW p \in Processes, Release(p) PROVE Right(t)'
    BY <1>0, <1>a, <1>b, <1>7 DEF Release, To, ClientPCs
<1>8. ASSUME NEW p \in Processes, NewDaemon(p) PROVE Right(t)'
    <2>1. CASE p = DaemonOf(t)
        <3>1. NewBundle(conf[p.test].registrations)
            BY <1>8, <1>0, <1>c, <2>1 DEF NewDaemon, New, NewBundle
        <3> QED
            BY <1>8, <1>0, <1>b, <2>1, <3>1 DEF NewDaemon, To
    <2>2. CASE p # DaemonOf(t)
        BY <1>8, <1>0, <1>a, <2>2 DEF NewDaemon, To
    <2> QED
        BY <2>1, <2>2
<1>9. ASSUME NEW p \in Processes, Serve(p) PROVE Right(t)'
    BY <1>0, <1>a, <1>b, <1>9 DEF Serve, To, ClientPCs
<1>10. ASSUME NEW p \in Processes, Exit(p) PROVE Right(t)'
    BY <1>0, <1>a, <1>b, <1>10 DEF Exit, To, ClientPCs
<1>11. CASE UNCHANGED vars
    BY <1>0, <1>a, <1>b, <1>11 DEF vars, ClientPCs
<1> QED
    BY <1>1, <1>2, <1>3, <1>4, <1>5, <1>6, <1>7, <1>8, <1>9, <1>10, <1>11 DEF Next

-----------------------------------------------------------------------------
(* Files and what is read from them.                                       *)

LEMMA FilesStay ==
    ASSUME RangeInv, [Next]_vars, NEW q \in Processes, Past(q)
    PROVE  File(q)' = File(q) /\ Token(q)' = Token(q)
    BY PastStays DEF File, Token

LEMMA WrittenStays ==
    ASSUME RangeInv, [Next]_vars, NEW info, Written(info)
    PROVE  Written(info)'
<1>1. info.daemon \in Processes /\ pc[info.daemon] \in DaemonPCs /\ Past(info.daemon)
    BY DEF Written, Past
<1> QED
    BY <1>1, PastStays, FilesStay DEF Written

LEMMA FileStep ==
    ASSUME RangeInv, FileInv, [Next]_vars
    PROVE  FileInv'
<1>0. \A info \in written : Written(info)'
    BY WrittenStays DEF FileInv
<1>1. ASSUME NEW p \in Processes, Begin(p) PROVE FileInv'
    BY <1>0, <1>1 DEF Begin, To, FileInv
<1>2. ASSUME NEW p \in Processes, Run(p) PROVE FileInv'
    BY <1>0, <1>2 DEF Run, To, FileInv
<1>3. ASSUME NEW p \in Processes, Connect(p) PROVE FileInv'
    BY <1>0, <1>3 DEF Connect, To, FileInv
<1>4. ASSUME NEW p \in Processes, Spawn(p) PROVE FileInv'
    BY <1>0, <1>4 DEF Spawn, To, FileInv
<1>5. ASSUME NEW p \in Processes, WaitInVain(p) PROVE FileInv'
    BY <1>0, <1>5 DEF WaitInVain, To, FileInv
<1>6. ASSUME NEW p \in Processes, Acquire(p) PROVE FileInv'
    BY <1>0, <1>6 DEF Acquire, To, FileInv
<1>7. ASSUME NEW p \in Processes, Release(p) PROVE FileInv'
    BY <1>0, <1>7 DEF Release, To, FileInv
<1>8. ASSUME NEW p \in Processes, NewDaemon(p) PROVE FileInv'
    BY <1>0, <1>8 DEF NewDaemon, To, FileInv
<1>9. ASSUME NEW p \in Processes, Serve(p) PROVE FileInv'
    <2>1. p \in Processes /\ pc[p] = "boot" /\ pc'[p] = "serving" /\ Past(p)
        BY <1>9 DEF Serve, To, RangeInv, AllPCs, Past, DaemonPCs
    <2>2. File(p)' = File(p) /\ Token(p)' = Token(p)
        BY <2>1, FilesStay
    <2>i. PICK i : i = RuntimeInfo(p)
        OBVIOUS
    <2>3. i.daemon = p /\ i.file = File(p) /\ i.token = Token(p)
        BY <2>i DEF RuntimeInfo
    <2>4. Written(i)'
        BY <2>1, <2>2, <2>3 DEF Written, DaemonPCs
    <2>5. \A info \in written' : info \in written \/ info = i
        BY <1>9, <2>i DEF Serve
    <2> QED
        BY <1>0, <2>4, <2>5 DEF FileInv
<1>10. ASSUME NEW p \in Processes, Exit(p) PROVE FileInv'
    <2>1. written' \subseteq written
        BY <1>10 DEF Exit
    <2> QED
        BY <1>0, <2>1 DEF FileInv
<1>11. CASE UNCHANGED vars
    BY <1>0, <1>11 DEF vars, FileInv
<1> QED
    BY <1>1, <1>2, <1>3, <1>4, <1>5, <1>6, <1>7, <1>8, <1>9, <1>10, <1>11 DEF Next

LEMMA ReadStep ==
    ASSUME RangeInv, FileInv, ReadInv, [Next]_vars
    PROVE  ReadInv'
<1> DEFINE Right(q) ==
        /\ server[q] = Nobody \/ server[q].daemon \in Processes
        /\ pc[q] \in ReadPCs => Written(server[q]) /\ server[q].file = File(q)
<1> SUFFICES ASSUME NEW q \in Processes PROVE Right(q)'
    BY DEF ReadInv
<1>0. Right(q)
    BY DEF ReadInv
<1>s. ASSUME server'[q] = server[q], pc'[q] \in ReadPCs => pc[q] \in ReadPCs
      PROVE  Right(q)'
    <2>i. PICK i : i = server[q]
        OBVIOUS
    <2>1. ASSUME pc'[q] \in ReadPCs PROVE Written(i)' /\ i.file = File(q)'
        <3>1. pc[q] \in ReadPCs /\ Past(q)
            BY <1>s, <2>1 DEF ReadPCs, Past, ClientPCs
        <3>2. Written(i) /\ i.file = File(q)
            BY <1>0, <2>i, <3>1
        <3> QED
            BY <3>1, <3>2, WrittenStays, FilesStay
    <2>2. server'[q] = i
        BY <1>s, <2>i
    <2> QED
        BY <1>0, <2>1, <2>2, <2>i DEF Written
<1> USE DEF RangeInv, AllPCs, ClientPCs, DaemonPCs, ReadPCs
<1>1. ASSUME NEW p \in Processes, Begin(p) PROVE Right(q)'
    BY <1>s, <1>1 DEF Begin, To
<1>2. ASSUME NEW p \in Processes, Run(p) PROVE Right(q)'
    BY <1>s, <1>2 DEF Run, To
<1>3. ASSUME NEW p \in Processes, Connect(p) PROVE Right(q)'
    <2>1. CASE p = q
        <3>1. PICK info \in At(File(q)) : server' = [server EXCEPT ![q] = info]
            BY <1>3, <2>1 DEF Connect
        <3>2. info \in written /\ info.file = File(q) /\ pc[q] \in {"client", "waiting"}
            BY <1>3, <2>1, <3>1 DEF At, Connect
        <3>3. Written(info) /\ Past(q)
            BY <3>2 DEF FileInv, Past
        <3>4. Written(info)' /\ info.file = File(q)'
            BY <3>2, <3>3, WrittenStays, FilesStay
        <3>5. server'[q] = info
            BY <1>3, <2>1, <3>1 DEF RangeInv
        <3> QED
            BY <3>4, <3>5 DEF Written
    <2>2. CASE p # q
        BY <1>s, <1>3, <2>2 DEF Connect, To
    <2> QED
        BY <2>1, <2>2
<1>4. ASSUME NEW p \in Processes, Spawn(p) PROVE Right(q)'
    <2>1. DaemonOf(p.test) \in Processes
        BY Kinds
    <2> QED
        BY <1>s, <1>4, <2>1 DEF Spawn
<1>5. ASSUME NEW p \in Processes, WaitInVain(p) PROVE Right(q)'
    BY <1>s, <1>5 DEF WaitInVain, To
<1>6. ASSUME NEW p \in Processes, Acquire(p) PROVE Right(q)'
    BY <1>s, <1>6 DEF Acquire, To
<1>7. ASSUME NEW p \in Processes, Release(p) PROVE Right(q)'
    BY <1>s, <1>7 DEF Release, To
<1>8. ASSUME NEW p \in Processes, NewDaemon(p) PROVE Right(q)'
    BY <1>s, <1>8 DEF NewDaemon, To
<1>9. ASSUME NEW p \in Processes, Serve(p) PROVE Right(q)'
    BY <1>s, <1>9 DEF Serve, To
<1>10. ASSUME NEW p \in Processes, Exit(p) PROVE Right(q)'
    BY <1>s, <1>10 DEF Exit, To
<1>11. CASE UNCHANGED vars
    BY <1>s, <1>11 DEF vars
<1> QED
    BY <1>1, <1>2, <1>3, <1>4, <1>5, <1>6, <1>7, <1>8, <1>9, <1>10, <1>11 DEF Next

-----------------------------------------------------------------------------
(* What authorises a client.                                               *)

\* A token of the configuration without blanks around it, or one made up, is accepted.
LEMMA TokenOpens ==
    ASSUME RangeInv, NEW d \in Processes, ~Authorised(d, Token(d))
    PROVE  conf[d.test].token.padded
<1>1. conf[d.test] \in Config /\ conf[d.test].token \in Text
    <2>1. conf[d.test] \in Config
        BY Kinds, EntryAssumption DEF RangeInv
    <2> QED
        BY <2>1 DEF Config
<1>2. CASE Absent(conf[d.test].token)
    <2>1. Token(d) = [text |-> <<"random", d.test, d.spawned>>, padded |-> FALSE]
        BY <1>2 DEF Token
    <2>2. Token(d).text = <<"random", d.test, d.spawned>>
        BY <2>1
    <2>3. <<"random", d.test, d.spawned>> # << >>
        OBVIOUS
    <2>4. Trim(Token(d)) = Token(d)
        BY <2>1 DEF Trim
    <2> QED
        BY <2>2, <2>3, <2>4 DEF Authorised, Blank
<1>3. CASE ~Absent(conf[d.test].token)
    <2>1. Token(d) = conf[d.test].token
        BY <1>3 DEF Token
    <2> SUFFICES ASSUME conf[d.test].token.padded = FALSE PROVE FALSE
        BY <1>1 DEF Text
    <2>2. ~Blank(Token(d)) /\ Trim(Token(d)) = Token(d)
        BY <1>1, <1>3, <2>1, TrimIsText DEF Absent, Blank
    <2> QED
        BY <2>2 DEF Authorised
<1> QED
    BY <1>2, <1>3

LEMMA TokenStep ==
    ASSUME RangeInv, ReadInv, TokenAccepted, [Next]_vars
    PROVE  TokenAccepted'
<1> SUFFICES ASSUME NEW q \in Processes, pc'[q] = "unauthorised"
             PROVE  conf'[server'[q].daemon.test].token.padded
    BY DEF TokenAccepted
<1>0. conf' = conf
    BY PastStays
<1>s. ASSUME server'[q] = server[q], pc[q] = "unauthorised"
      PROVE  conf'[server'[q].daemon.test].token.padded
    BY <1>0, <1>s DEF TokenAccepted
<1> USE DEF RangeInv, AllPCs
<1>1. ASSUME NEW p \in Processes, Begin(p) PROVE conf'[server'[q].daemon.test].token.padded
    BY <1>s, <1>1 DEF Begin, To
<1>2. ASSUME NEW p \in Processes, Run(p) PROVE conf'[server'[q].daemon.test].token.padded
    BY <1>s, <1>2 DEF Run, To
<1>3. ASSUME NEW p \in Processes, Connect(p) PROVE conf'[server'[q].daemon.test].token.padded
    BY <1>s, <1>3 DEF Connect, To
<1>4. ASSUME NEW p \in Processes, Spawn(p) PROVE conf'[server'[q].daemon.test].token.padded
    <2>1. DaemonOf(p.test) \in Processes
        BY Kinds
    <2> QED
        BY <1>s, <1>4, <2>1 DEF Spawn
<1>5. ASSUME NEW p \in Processes, WaitInVain(p) PROVE conf'[server'[q].daemon.test].token.padded
    BY <1>s, <1>5 DEF WaitInVain, To
<1>6. ASSUME NEW p \in Processes, Acquire(p) PROVE conf'[server'[q].daemon.test].token.padded
    <2>1. CASE p = q
        <3>1. pc[q] = "connected" /\ server' = server
            BY <1>6, <2>1 DEF Acquire
        <3>2. ~Authorised(server[q].daemon, server[q].token)
            BY <1>6, <2>1 DEF Acquire, To
        <3>3. server[q].daemon \in Processes /\ server[q].token = Token(server[q].daemon)
            BY <3>1 DEF ReadInv, ReadPCs, Written
        <3> QED
            BY <1>0, <3>1, <3>2, <3>3, TokenOpens
    <2>2. CASE p # q
        BY <1>s, <1>6, <2>2 DEF Acquire, To
    <2> QED
        BY <2>1, <2>2
<1>7. ASSUME NEW p \in Processes, Release(p) PROVE conf'[server'[q].daemon.test].token.padded
    BY <1>s, <1>7 DEF Release, To
<1>8. ASSUME NEW p \in Processes, NewDaemon(p) PROVE conf'[server'[q].daemon.test].token.padded
    BY <1>s, <1>8 DEF NewDaemon, To
<1>9. ASSUME NEW p \in Processes, Serve(p) PROVE conf'[server'[q].daemon.test].token.padded
    BY <1>s, <1>9 DEF Serve, To
<1>10. ASSUME NEW p \in Processes, Exit(p) PROVE conf'[server'[q].daemon.test].token.padded
    BY <1>s, <1>10 DEF Exit, To
<1>11. CASE UNCHANGED vars
    BY <1>s, <1>11 DEF vars
<1> QED
    BY <1>1, <1>2, <1>3, <1>4, <1>5, <1>6, <1>7, <1>8, <1>9, <1>10, <1>11 DEF Next

-----------------------------------------------------------------------------
LEMMA EntryInvariant == Spec => []EntryInv
<1>1. ASSUME Init PROVE EntryInv
    <2>1. RangeInv
        <3>1. environ \in [Processes -> [mode : {"daemon", "none"}, runtime : Text]]
            <4>1. PICK e \in [Tests -> Environments] : environ = [p \in Processes |-> e[p.test]]
                BY <1>1 DEF Init
            <4>2. \A p \in Processes : e[p.test] \in [mode : {"daemon", "none"}, runtime : Text]
                BY Kinds, EntryAssumption
            <4> QED
                BY <4>1, <4>2
        <3>2. Empty \in Text
            BY DEF Empty, Text
        <3>3. pc \in [Processes -> AllPCs]
            BY <1>1 DEF Init, AllPCs
        <3> QED
            BY <1>1, <3>1, <3>2, <3>3 DEF Init, RangeInv
    <2>2. PathInv
        BY <1>1 DEF Init, PathInv, Past, ClientPCs, DaemonPCs
    <2>3. \A t \in Tests : pc[Test(t)] = "new" /\ pc[DaemonOf(t)] = "unborn"
        BY <1>1, Kinds DEF Init, Test, DaemonOf
    <2>4. TestInv /\ SpawnInv
        BY <2>3 DEF TestInv, SpawnInv, ClientPCs, DaemonPCs
    <2>5. FileInv /\ ReadInv /\ TokenAccepted
        BY <1>1 DEF Init, FileInv, ReadInv, ReadPCs, TokenAccepted
    <2> QED
        BY <2>1, <2>2, <2>4, <2>5 DEF EntryInv
<1>2. EntryInv /\ [Next]_vars => EntryInv'
    BY RangeStep, PathStep, TestStep, SpawnStep, FileStep, ReadStep, TokenStep DEF EntryInv
<1> QED
    BY <1>1, <1>2, PTL DEF Spec

\* Every variable keeps its range, and paths are there, without blanks, from Run on.
THEOREM TypeCorrect == Spec => []TypeOK
<1>1. EntryInv => TypeOK
    <2> SUFFICES ASSUME EntryInv PROVE TypeOK
        OBVIOUS
    <2>1. \A info \in written : info.daemon \in Processes
        BY DEF EntryInv, FileInv, Written
    <2>2. \A p \in Processes : server[p] = Nobody \/ server[p].daemon \in Processes
        BY DEF EntryInv, ReadInv
    <2>3. ASSUME NEW p \in Processes
          PROVE  path[p].padded = FALSE /\ (Blank(path[p]) = ~Past(p))
        BY DEF EntryInv, PathInv, Usable, Blank, Empty
    <2> QED
        BY <2>1, <2>2, <2>3 DEF EntryInv, RangeInv, AllPCs, TypeOK, Past
<1> QED
    BY <1>1, EntryInvariant, PTL

\* Whatever the strings of the configuration are, and whatever the environment says.
THEOREM SpawnedServesAlways == Spec => []SpawnedServes
<1>1. EntryInv => SpawnedServes
    <2> SUFFICES ASSUME EntryInv, NEW t \in Tests
                 PROVE  /\ pc[DaemonOf(t)] \notin ClientPCs \union {"rejected", "refused"}
                        /\ path[DaemonOf(t)] # Empty => File(DaemonOf(t)) = File(Test(t))
        BY DEF SpawnedServes
    <2>1. pc[DaemonOf(t)] \in {"unborn", "new", "run"} \union (DaemonPCs \ {"refused"})
        BY DEF EntryInv, SpawnInv
    <2>2. path[DaemonOf(t)] # Empty => path[DaemonOf(t)] = path[Test(t)]
        BY <2>1, Kinds DEF EntryInv, SpawnInv, PathInv, Past, ClientPCs, DaemonPCs
    <2>3. DaemonOf(t).test = t /\ Test(t).test = t
        BY Kinds
    <2> QED
        BY <2>1, <2>2, <2>3 DEF File, ClientPCs, DaemonPCs
<1> QED
    BY <1>1, EntryInvariant, PTL

\* A path that comes from the project is the default path of the project.
LEMMA DerivedPath ==
    ASSUME EntryInv, NEW p \in Processes, Derived(p)
    PROVE  /\ normalizeGlobal(conf[p.test]).project \in Text
           /\ ~Blank(normalizeGlobal(conf[p.test]).project)
           /\ path[p] = DefaultRuntimePath(normalizeGlobal(conf[p.test]).project)
           /\ File(p) = <<"temp">> \o sanitizeProject(normalizeGlobal(conf[p.test]).project)
<1> DEFINE project == normalizeGlobal(conf[p.test]).project
<1>1. conf[p.test] \in Config
    BY Kinds, EntryAssumption DEF EntryInv, RangeInv
<1>2. Usable(project) /\ OwnPath(p.test) = DefaultRuntimePath(project)
    BY <1>1, Normalized DEF Derived, OwnPath
<1>3. Past(p)
    BY DEF Derived, EntryInv, PathInv
<1>4. path[p] = OwnPath(p.test)
    <2>1. CASE p = Test(p.test)
        <3>1. p.spawned = FALSE
            BY <2>1 DEF Test
        <3> QED
            BY <1>3, <2>1, <3>1, Kinds DEF Derived, EntryInv, TestInv, Past
    <2>2. CASE p = DaemonOf(p.test)
        <3>1. pc[p] \in DaemonPCs
            BY <1>3, <2>2, Kinds DEF EntryInv, SpawnInv, Past, ClientPCs, DaemonPCs
        <3> QED
            BY <2>2, <3>1, Kinds DEF EntryInv, SpawnInv, TestInv, DaemonPCs
    <2> QED
        BY <2>1, <2>2, Kinds
<1>5. project \in Text /\ ~Blank(project)
    BY <1>2 DEF Usable, Blank
<1>6. DefaultRuntimePath(project).text[1] = "temp"
    BY <1>5, DefaultPath
<1>7. File(p) = DefaultRuntimePath(project).text
    BY <1>2, <1>4, <1>6 DEF File
<1> QED
    BY <1>2, <1>4, <1>5, <1>7 DEF DefaultRuntimePath

\* One file for a project, for all directories and spellings.
THEOREM ProjectSharesAlways == Spec => []ProjectShares
<1>1. EntryInv => ProjectShares
    <2> SUFFICES ASSUME EntryInv, NEW p \in Processes, NEW q \in Processes,
                        Derived(p), Derived(q), Project(p) = Project(q)
                 PROVE  File(p) = File(q)
        BY DEF ProjectShares
    <2>1. sanitizeProject(normalizeGlobal(conf[p.test]).project)
              = sanitizeProject(normalizeGlobal(conf[q.test]).project)
        BY DEF Project, sanitizeProject, Blank
    <2> QED
        BY <2>1, DerivedPath
<1> QED
    BY <1>1, EntryInvariant, PTL

\* Names of any length, without the characters that are replaced, never meet.
THEOREM ProjectsApartAlways == Spec => []ProjectsApart
<1>1. EntryInv => ProjectsApart
    <2> SUFFICES ASSUME EntryInv, NEW c \in Processes, pc[c] = "session",
                        NEW d, d = server[c].daemon,
                        Derived(c), Derived(d), Plain(Project(c)), Plain(Project(d))
                 PROVE  Project(c) = Project(d)
        BY DEF ProjectsApart
    <2>1. d \in Processes /\ File(c) = File(d)
        BY DEF EntryInv, ReadInv, ReadPCs, Written
    <2> DEFINE mine == normalizeGlobal(conf[c.test]).project
               other == normalizeGlobal(conf[d.test]).project
    <2>2. mine \in Text /\ ~Blank(mine) /\ File(c) = <<"temp">> \o sanitizeProject(mine)
        BY DerivedPath
    <2>3. other \in Text /\ ~Blank(other) /\ File(d) = <<"temp">> \o sanitizeProject(other)
        BY <2>1, DerivedPath
    <2>4. sanitizeProject(mine) = mine.text /\ sanitizeProject(mine) \in Seq(Characters)
        BY <2>2, SanitizedIsText DEF Project
    <2>5. sanitizeProject(other) = other.text /\ sanitizeProject(other) \in Seq(Characters)
        BY <2>3, SanitizedIsText DEF Project
    <2>6. sanitizeProject(mine) = sanitizeProject(other)
        BY <2>1, <2>2, <2>3, <2>4, <2>5, TempCancels
    <2> QED
        BY <2>4, <2>5, <2>6 DEF Project
<1> QED
    BY <1>1, EntryInvariant, PTL

\* Only a configured token with blanks around it turns clients away.
THEOREM TokenAcceptedAlways == Spec => []TokenAccepted
<1>1. EntryInv => TokenAccepted
    BY DEF EntryInv
<1> QED
    BY <1>1, EntryInvariant, PTL
=============================================================================
