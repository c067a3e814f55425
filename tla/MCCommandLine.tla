---------------------------- MODULE MCCommandLine ----------------------------
(* A small file system and the commands TLC gives it.                        *)
(*   /etc, /usr      protected; /bin is a link to /usr and /all one to /     *)
(*   /root           the home directory, protected as well                   *)
(*   /w              a work directory: files, a fifo, a link to /root, keep  *)
(*                   with a file that cannot be removed, build, and m, where *)
(*                   another device is mounted                               *)
(*   /v              a directory that cannot be read, mnt, a second mount of *)
(*                   that device, and a file that stat fails on              *)
EXTENDS CommandLine, TLC

E(name, kind, size, age, dev, measured) ==
    [name |-> name, kind |-> kind, size |-> size, age |-> [c \in Clocks |-> age],
     dev |-> dev, measured |-> measured]
Dir(name)  == E(name, "dir", 4, 5, "disk", TRUE)
Log(name)  == E(name, "file", 1, 9, "disk", TRUE)

MCEntry ==
       ("top"    :> Dir("")     @@ "etc" :> Dir("etc")  @@ "passwd" :> Log("passwd")
    @@ "usr"     :> Dir("usr")  @@ "bin" :> E("bin", "dirlink", 1, 5, "disk", TRUE)
    @@ "all"     :> E("all", "dirlink", 1, 5, "disk", TRUE)
    @@ "home"    :> Dir("root") @@ "doc" :> Log("doc")
    @@ "w"       :> Dir("w")
    @@ "a"       :> E("a.log", "file", 0, 9, "disk", TRUE)
    @@ "b"       :> E("b.txt", "file", 3, 1, "disk", TRUE)
    @@ "pipe"    :> E("pipe.log", "fifo", 0, 5, "disk", TRUE)
    @@ "ln"      :> E("build", "dirlink", 1, 5, "disk", TRUE)
    @@ "keep"    :> Dir("keep") @@ "c" :> Log("c.log")
    @@ "build"   :> Dir("build")
    @@ "x"       :> [Log("x.log") EXCEPT !.size = 2] @@ "nested" :> Dir("build")
    @@ "m"       :> [Dir("m") EXCEPT !.dev = "other"]
    @@ "y"       :> [Log("y.txt") EXCEPT !.dev = "other"]
    @@ "v"       :> Dir("v")    @@ "locked" :> Dir("locked") @@ "q" :> Log("q.log")
    @@ "mnt"     :> [Dir("mnt") EXCEPT !.dev = "other"]
    @@ "z"       :> [Log("z.txt") EXCEPT !.dev = "other"]
    @@ "o"       :> E("o.log", "file", 2, 9, "disk", FALSE))

MCNodes  == DOMAIN MCEntry
MCParent == [n \in MCNodes \ {"top"} |->
                 CASE n = "passwd" -> "etc"
                   [] n = "doc"    -> "home"
                   [] n \in {"a", "b", "pipe", "ln", "keep", "build", "m"} -> "w"
                   [] n = "c"      -> "keep"
                   [] n \in {"x", "nested"} -> "build"
                   [] n = "y"      -> "m"
                   [] n \in {"locked", "mnt", "o"} -> "v"
                   [] n = "q"      -> "locked"
                   [] n = "z"      -> "mnt"
                   [] OTHER        -> "top"]

MCLevel  == [n \in MCNodes |-> Len(Route[n]) - 1]

MCObject ==
       ("/" :> "top" @@ "/etc" :> "etc" @@ "/usr" :> "usr" @@ "/bin" :> "bin" @@ "/all" :> "all"
    @@ "/all/etc" :> "etc" @@ "/all/root" :> "home" @@ "/root" :> "home" @@ "/etc/passwd" :> "passwd"
    @@ "/w" :> "w" @@ "/w/a.log" :> "a" @@ "/w/b.txt" :> "b" @@ "/w/build" :> "build" @@ "/w/m" :> "m"
    @@ "/v" :> "v" @@ "/v/locked" :> "locked" @@ "/gone" :> None)
MCPaths    == DOMAIN MCObject
MCRealPath == [p \in MCPaths |-> CASE p = "/bin" -> "/usr" [] p = "/all" -> "/"
                                   [] p = "/all/etc" -> "/etc" [] p = "/all/root" -> "/root"
                                   [] OTHER -> p]

(* "build", "*.log" and "build/build" in presets; "made" is another name for  *)
(* the first.                                                                *)
MCPresets == [make |-> [dirs |-> {"build"}, files |-> {}, nested |-> {}],
              logs |-> [dirs |-> {"locked"}, files |-> {"a.log", "c.log", "x.log"}, nested |-> {}],
              deps |-> [dirs |-> {}, files |-> {"a.log"}, nested |-> {<<"build", "build">>}]]
MCAliases == [made |-> "make", lost |-> "nothing"]

-----------------------------------------------------------------------------
Logs      == [names |-> {"a.log", "c.log", "x.log", "o.log", "pipe.log", "q.log"}, paths |-> {}]
BuildLogs == [names |-> {}, paths |-> {<<"build", "x.log">>}]
BuildDir  == [names |-> {"build"}, paths |-> {<<"build">>, <<"build", "build">>}]

Line(parts) == [blank |-> FALSE, negated |-> FALSE, dirOnly |-> FALSE, rooted |-> FALSE,
                parts |-> parts]
Comment     == [Line(<<>>) EXCEPT !.blank = TRUE]

(* An ignore file: "*.log" but not "x.log", all in build but build itself,   *)
(* and with the second one "/keep", "build/" and "**" forms.                 *)
IgnoreLogs == <<Comment, Line(<<Logs.names>>), [Line(<<{"x.log"}>>) EXCEPT !.negated = TRUE]>>
IgnoreDirs == <<[Line(<<{"build"}>>) EXCEPT !.dirOnly = TRUE],
                [Line(<<{"keep"}>>) EXCEPT !.rooted = TRUE],
                Line(<<AnyDepth, {"x.log"}>>), Line(<<{"m"}, AnyDepth>>),
                [Line(<<{"m"}, AnyDepth, {"y.txt"}>>) EXCEPT !.negated = TRUE]>>

MCFilters == {
    NoFilter,
    [NoFilter EXCEPT !.include["glob"] = {Logs}],
    [NoFilter EXCEPT !.include["glob"] = {Logs, BuildDir}, !.include["regex"] = {BuildLogs}],
    [NoFilter EXCEPT !.exclude["regex"] = {BuildDir}],
    [NoFilter EXCEPT !.exclude["glob"] = {BuildLogs}, !.maxSize = 2],
    [NoFilter EXCEPT !.types = {"f", "d"}, !.minSize = 1],
    [NoFilter EXCEPT !.types = {"l", "s"}],
    [NoFilter EXCEPT !.types = {"f", "p"}],
    [NoFilter EXCEPT !.older["modified"] = 5],
    [NoFilter EXCEPT !.newer["accessed"] = 4, !.filesOnly = TRUE],
    [NoFilter EXCEPT !.older["created"] = 6, !.newer["modified"] = 9],
    [NoFilter EXCEPT !.minDepth = 2],
    [NoFilter EXCEPT !.maxDepth = 1],
    [NoFilter EXCEPT !.minDepth = 1, !.maxDepth = 1, !.dirsOnly = TRUE],
    [NoFilter EXCEPT !.emptyDirsOnly = TRUE],
    [NoFilter EXCEPT !.emptyFilesOnly = TRUE],
    [NoFilter EXCEPT !.oneFileSystem = TRUE],
    [NoFilter EXCEPT !.ignore = IgnoreLogs],
    [NoFilter EXCEPT !.ignore = IgnoreDirs] }

MCRefused == {
    [NoFilter EXCEPT !.minDepth = 2, !.maxDepth = 1],
    [NoFilter EXCEPT !.maxDepth = -1],
    [NoFilter EXCEPT !.emptyDirsOnly = TRUE, !.filesOnly = TRUE] }

(* fastdelete --yes /w *)
Plain == [kind |-> "delete", targets |-> <<"/w">>, filter |-> NoFilter, ignoreExists |-> TRUE,
          workers |-> 1, dryRun |-> FALSE, unattended |-> TRUE, allowRoot |-> FALSE,
          allowHome |-> FALSE, trash |-> FALSE, plain |-> TRUE,
          preset |-> "make", top |-> 1, maxDepth |-> None,
          signals |-> 0]

On(targets) == [Plain EXCEPT !.targets = targets]
OneFS       == [NoFilter EXCEPT !.oneFileSystem = TRUE]

Filtered == {[Plain EXCEPT !.filter = f, !.dryRun = dry] : f \in MCFilters, dry \in BOOLEAN}
         \cup {[On(<<"/v">>) EXCEPT !.filter = f, !.dryRun = dry] : dry \in BOOLEAN,
                   f \in {NoFilter, OneFS, [NoFilter EXCEPT !.older["modified"] = 5]}}
Refusals == {[Plain EXCEPT !.filter = f] : f \in MCRefused}
         \cup {[Plain EXCEPT !.workers = 0], On(<<>>), [On(<<>>) EXCEPT !.kind = "many"],
               [Plain EXCEPT !.filter.ignore = IgnoreLogs, !.ignoreExists = FALSE]}
Several  == {[On(ts) EXCEPT !.kind = k] :
                 k \in {"delete", "many"},
                 ts \in {<<"/w/build", "/v">>, <<"/gone", "/w/a.log">>, <<"/w/a.log", "/gone">>,
                         <<"/w/build", "/w">>, <<"/w/a.log", "/w/a.log">>,
                         <<"/w/b.txt", "/etc">>, <<"/w/m", "/v/locked">>}}
         \cup {[On(<<"/w/m", "/v">>) EXCEPT !.filter = OneFS],
               [On(<<"/w", "/w/m">>) EXCEPT !.filter = OneFS],
               [On(<<"/w", "/w/build">>) EXCEPT !.filter = [NoFilter EXCEPT !.minDepth = 1, !.maxDepth = 1]],
               [On(<<"/w/a.log", "/w/b.txt">>) EXCEPT !.filter = [NoFilter EXCEPT !.older["modified"] = 5]]}
Protected == {[On(<<p>>) EXCEPT !.allowRoot = r, !.allowHome = h, !.unattended = u] :
                  p \in {"/etc", "/all/etc", "/usr", "/root", "/all/root"}, r \in BOOLEAN,
                  h \in BOOLEAN, u \in BOOLEAN}
         \cup {On(<<p>>) : p \in {"/", "/bin", "/all", "/etc/passwd"}}
         \cup {[On(<<"/bin">>) EXCEPT !.allowRoot = TRUE, !.unattended = FALSE]}
Attended  == {[On(ts) EXCEPT !.unattended = FALSE] :
                  ts \in {<<"/w/build">>, <<"/w/a.log", "/w/build">>, <<"/gone", "/w/m", "/w/b.txt">>}}
Slow      == {[On(<<"/w">>) EXCEPT !.plain = FALSE, !.workers = 2]}
Trashed   == {[On(ts) EXCEPT !.trash = TRUE, !.dryRun = dry] : dry \in BOOLEAN,
                  ts \in {<<"/w">>, <<"/w/build", "/w">>, <<"/w", "/w/build">>}}
Cleanings == {[On(<<p>>) EXCEPT !.kind = "clean", !.preset = name, !.dryRun = dry] :
                  p \in {"/w", "/v", "/gone", "/w/a.log"}, dry \in BOOLEAN,
                  name \in {"make", "logs", "deps", "made", "lost", "nothing", AllDev}}
Usages    == {[On(<<p>>) EXCEPT !.kind = "du", !.top = n, !.maxDepth = deep] :
                  p \in {"/w", "/v", "/gone", "/bin", "/w/b.txt"}, n \in -1 .. 2, deep \in {None, 1}}

Signalled == {[c EXCEPT !.signals = 2] :
                  c \in {On(<<"/w/a.log", "/w/build">>), [On(<<"/v">>) EXCEPT !.trash = TRUE],
                         [On(<<"/w/m", "/w/build">>) EXCEPT !.plain = FALSE],
                         [On(<<"/w/build">>) EXCEPT !.unattended = FALSE],
                         [On(<<"/w">>) EXCEPT !.kind = "clean"], [On(<<"/w/build">>) EXCEPT !.kind = "du"]}}

MCCommands == UNION {Filtered, Refusals, Several, Protected, Attended, Slow, Trashed,
                     Cleanings, Usages, Signalled}

(* Two targets on different devices, and in the second one a mount of the    *)
(* device of the first.                                                      *)
TwoDevices == {[On(<<"/w/m", "/v">>) EXCEPT !.filter = OneFS, !.kind = k] :
                   k \in {"delete", "many"}}
==============================================================================
