------------------------------- MODULE Archives --------------------------------
(***************************************************************************)
(* Source archives: the service resolves a ref to a commit, looks the      *)
(* archive of the commit up in the cache, and generates it otherwise: the  *)
(* output of git goes to the caller and to the cache while it is made, so  *)
(* that the caller's stream ends before git's exit code is known.  The     *)
(* cache is two files per key, the archive and an entry of its size and    *)
(* expiry, which requests, cleanups and other processes read, replace and  *)
(* remove step by step.  The cache outlives a crash.                       *)
(*                                                                         *)
(* The key stands for the commit (repository, format and version are       *)
(* fixed); it does not contain the root directory, which callers choose.   *)
(***************************************************************************)
EXTENDS Inspection, FiniteSets

CONSTANTS Request,
          Root,       \* root directories callers ask for
          NoFile

VARIABLES data,   \* data[k]: the archive of key k
          entry,  \* entry[k]: the metadata of key k
          req,    \* req[q]: the request q
          made    \* history: made[k]: the archives generated for k without an error

archives == <<data, entry, req, made>>
vars == <<reads, archives>>

Key == 0..MaxCommit             \* 0: the empty hash of a rev-parse that was killed
Archive == [of : Key, root : Root, whole : BOOLEAN]
Entry == [size : Archive, fresh : BOOLEAN]       \* an archive stands for its size, too

NoRequest == [op |-> "none", at |-> "idle", sub |-> "", rm |-> {}, ref |-> "HEAD", key |-> 0,
              root |-> "", known |-> NoFile, hit |-> NoFile, body |-> NoFile, result |-> "idle"]

TypeOK ==
  /\ LookTypeOK
  /\ data \in [Key -> Archive \cup {NoFile}] /\ entry \in [Key -> Entry \cup {NoFile}]
  /\ made \in [Key -> SUBSET Archive]
  /\ \A q \in Request :
       /\ req[q].op \in {"none", "open", "read", "resolve", "prefix", "cleanup"} /\ req[q].rm \subseteq {"data", "entry"}
       /\ req[q].sub \in {"", "check", "remove"} /\ req[q].key \in 0..MaxCommit
       /\ req[q].known \in Entry \cup {NoFile} /\ req[q].hit \in Entry \cup {NoFile}
       /\ req[q].body \in Archive \cup {NoFile} /\ req[q].result \in {"idle", "running", "ok", "error"}

CacheInit ==
  /\ data = [k \in Key |-> NoFile] /\ entry = [k \in Key |-> NoFile]
  /\ made = [k \in Key |-> {}]

Stage(q, at) == req[q].result = "running" /\ req[q].at = at /\ req[q].sub = ""
To(q, r) == req' = [req EXCEPT ![q] = r]
Answer(q, r, result) == To(q, [r EXCEPT !.at = "idle", !.result = result])
KeepFiles == UNCHANGED <<data, entry, made>>

\* maybeCleanupCache runs before a request when the interval is over: a request
\* of its own here, which goes through one key.
AskArchive(q, op, ref, root) ==
  /\ req[q].result = "idle"
  /\ To(q, [NoRequest EXCEPT !.op = op, !.ref = ref, !.root = root, !.at = "resolve", !.result = "running"])
  /\ KeepFiles

Cleanup(q, k) ==
  /\ req[q].result = "idle" /\ entry[k] # NoFile
  /\ To(q, [NoRequest EXCEPT !.op = "cleanup", !.key = k, !.at = "clean", !.result = "running"])
  /\ KeepFiles

\* resolveArchiveCommit; a request with a prefix does not use the cache.
Resolve(q) ==
  /\ Stage(q, "resolve")
  /\ \E t \in Told(req[q].ref) :
       IF ~t.ok THEN Answer(q, req[q], "error")
       ELSE To(q, [req[q] EXCEPT !.key = t.commit,
                                 !.at = IF req[q].op = "prefix" THEN "generate" ELSE "lookup"])
  /\ KeepFiles

-----------------------------------------------------------------------------
(* readEntryFromDisk, which looks up, opens and cleans up.                  *)

\* read() without a prefix goes through open(), and waits for the archive to be complete.
Opens(r) == r.op \in {"open", "read"}

\* resolve() answers with the size of a hit.
AnswerResolve(q, r, e) == Answer(q, [r EXCEPT !.known = e], "ok")

\* What the caller does with the entry: open() keeps
\* the first one it finds for its metadata and, on the second lookup, streams.
Found(q, e) ==
  LET r == [req[q] EXCEPT !.sub = ""] IN
  CASE r.op = "cleanup" -> Answer(q, r, "ok")
    [] r.op = "resolve" -> AnswerResolve(q, r, e)
    [] Opens(r) /\ r.at = "lookup" -> To(q, [r EXCEPT !.known = e, !.at = "open"])
    [] Opens(r) /\ r.at = "open" ->
         To(q, [r EXCEPT !.hit = e, !.at = IF e = NoFile THEN "generate" ELSE "stream"])

ReadEntry(q) ==
  /\ \E at \in {"lookup", "open", "clean"} : Stage(q, at)
  /\ LET e == entry[req[q].key] IN
     IF e = NoFile THEN Found(q, NoFile)
     ELSE To(q, [req[q] EXCEPT !.hit = e, !.sub = IF e.fresh THEN "check" ELSE "remove",
                               !.rm = {"data", "entry"}])
  /\ KeepFiles

CheckData(q) ==
  /\ req[q].sub = "check"
  /\ IF data[req[q].key] # NoFile THEN Found(q, req[q].hit)
     ELSE To(q, [req[q] EXCEPT !.sub = "remove"])
  /\ KeepFiles

\* The two files are removed side by side; then there is no entry.
Remove(q, file) ==
  /\ req[q].sub = "remove" /\ file \in req[q].rm
  /\ IF file = "data" THEN data' = [data EXCEPT ![req[q].key] = NoFile] /\ UNCHANGED entry
     ELSE entry' = [entry EXCEPT ![req[q].key] = NoFile] /\ UNCHANGED data
  /\ To(q, [req[q] EXCEPT !.rm = @ \ {file}])
  /\ UNCHANGED made

Removed(q) ==
  /\ req[q].sub = "remove" /\ req[q].rm = {}
  /\ Found(q, NoFile) /\ KeepFiles

-----------------------------------------------------------------------------
(* open().                                                                  *)

\* The read stream opens the file when it gets to it; headers have gone out.
Stream(q) ==
  /\ Stage(q, "stream")
  /\ LET d == data[req[q].key] IN
     IF d = NoFile THEN Answer(q, req[q], "error") ELSE Answer(q, [req[q] EXCEPT !.body = d], "ok")
  /\ KeepFiles

\* What git archive makes of the resolved commit, whole or broken off; of no commit it
\* makes none.
GitArchive(q) ==
  [of : {req[q].key}, root : {req[q].root}, whole : IF req[q].key = 0 THEN {FALSE} ELSE BOOLEAN]

\* Whether it counts as completed: the exit code of a process that was killed is
\* null, and Number(null) is zero.
Completes(a) == a.whole \/ "kill" \in Faults

\* Mutant: git archive is given the ref.
GenerateAtRef(q) ==
  /\ Stage(q, "generate") /\ CommitAt(req[q].ref) # 0
  /\ To(q, [req[q] EXCEPT !.at = "exit",
             !.body = [of |-> CommitAt(req[q].ref), root |-> req[q].root, whole |-> TRUE]])
  /\ KeepFiles

\* The output has ended: the caller has it, and the temporary file.
Generate(q) ==
  /\ Stage(q, "generate")
  /\ \E a \in GitArchive(q) : To(q, [req[q] EXCEPT !.body = a, !.at = "exit"])
  /\ KeepFiles

\* Mutant: the exit code is not looked at.
ExitUnseen(q) ==
  /\ Stage(q, "exit")
  /\ IF req[q].op = "prefix" THEN Answer(q, req[q], "ok") ELSE To(q, [req[q] EXCEPT !.at = "moveData"])
  /\ KeepFiles

\* The exit code is zero.
Exit(q) ==
  /\ Stage(q, "exit") /\ Completes(req[q].body)
  /\ made' = [made EXCEPT ![req[q].key] = @ \cup {req[q].body}]
  /\ IF req[q].op = "prefix" THEN Answer(q, req[q], "ok") ELSE To(q, [req[q] EXCEPT !.at = "moveData"])
  /\ UNCHANGED <<data, entry>>

\* No spawn, an error of git, of its output or of the temporary file: what reads with a
\* prefix throws, else the writer is aborted first.
Fails(q) == IF Opens(req[q]) THEN To(q, [req[q] EXCEPT !.at = "abort"])
            ELSE Answer(q, [req[q] EXCEPT !.body = NoFile], "error")
GenerateFails(q) ==
  (\E at \in {"generate", "exit", "moveData"} : Stage(q, at)) /\ Fails(q) /\ KeepFiles

\* Only then the caller's stream is destroyed.  By now it may have ended, with what git
\* had written: for open() hands it out at once, and the handler pipes it without a
\* look at `completed'; read() throws what it has collected away.
Abort(q) ==
  /\ Stage(q, "abort")
  /\ \E b \in {NoFile} \cup (IF req[q].op = "read" THEN {}
                           ELSE IF req[q].body = NoFile THEN GitArchive(q) ELSE {req[q].body}) :
       Answer(q, [req[q] EXCEPT !.body = b], "error")
  /\ KeepFiles

MoveData(q) ==
  /\ Stage(q, "moveData")
  /\ data' = [data EXCEPT ![req[q].key] = req[q].body]
  /\ To(q, [req[q] EXCEPT !.at = "moveEntry"])
  /\ UNCHANGED <<entry, made>>

MoveEntry(q) ==
  /\ Stage(q, "moveEntry")
  /\ entry' = [entry EXCEPT ![req[q].key] = [size |-> req[q].body, fresh |-> TRUE]]
  /\ Answer(q, req[q], "ok")
  /\ UNCHANGED <<data, made>>

\* A rename fails, the target is removed for a second try, which fails too.
MoveFails(q) ==
  /\ \/ Stage(q, "moveData") /\ data' = [data EXCEPT ![req[q].key] = NoFile] /\ UNCHANGED entry
     \/ Stage(q, "moveEntry") /\ entry' = [entry EXCEPT ![req[q].key] = NoFile] /\ UNCHANGED data
  /\ To(q, [req[q] EXCEPT !.at = "abort"])
  /\ UNCHANGED made

\* The time to live of a key runs out; the process dies and its temporary files stay.
Expire(k) ==
  /\ entry[k] # NoFile /\ entry[k].fresh
  /\ entry' = [entry EXCEPT ![k].fresh = FALSE]
  /\ UNCHANGED <<data, req, made>>

Crash ==
  /\ \E q \in Request : req[q].result = "running"
  /\ req' = [q \in Request |-> IF req[q].result = "running" THEN [NoRequest EXCEPT !.result = "error"] ELSE req[q]]
  /\ KeepFiles

ArchiveStep(q) ==
  \/ \E op \in {"open", "read", "resolve", "prefix"}, ref \in {"HEAD", "dev"}, root \in Root : AskArchive(q, op, ref, root)
  \/ \E k \in Key : Cleanup(q, k)
  \/ Resolve(q) \/ ReadEntry(q) \/ CheckData(q) \/ Removed(q)
  \/ \E file \in {"data", "entry"} : Remove(q, file)
  \/ Stream(q) \/ Generate(q) \/ Exit(q) \/ GenerateFails(q) \/ Abort(q)
  \/ MoveData(q) \/ MoveEntry(q) \/ MoveFails(q)

ArchivesNext == (\E q \in Request : ArchiveStep(q)) \/ (\E k \in Key : Expire(k)) \/ Crash

Init ==
  /\ RefsInit /\ CacheInit
  /\ look = [r \in Reader |-> Resting] /\ req = [q \in Request |-> NoRequest]
Next == (ReadsNext /\ UNCHANGED archives) \/ (ArchivesNext /\ UNCHANGED reads)
Spec == Init /\ [][Next]_vars

-----------------------------------------------------------------------------
(* Properties.                                                             *)

\* What the cache holds for a commit, and what the service answers with success, is an
\* archive generated for this commit, wherever its ref has moved since, and whole unless
\* git was killed, whichever of two writers, a reader, a cleanup and a crash came between
\* (archive/open.ts:174, archive_cache_filesystem.ts:129).  A caller of open() has its
\* stream before that is known: what it gets is of the commit, no more (archive/open.ts:166).
ArchivesAreMade ==
  /\ \A k \in Key : data[k] # NoFile => data[k] \in made[k]
  /\ \A q \in Request : req[q].body # NoFile =>
       /\ req[q].body.of = req[q].key
       /\ req[q].result = "ok" => req[q].body \in made[req[q].key]
       /\ req[q].result = "error" => req[q].op = "open"
  /\ \A k \in Key : \A a \in made[k] : a.of = k /\ (a.whole \/ "kill" \in Faults)

\* The announced length: of the entry of a hit; else the content-length, which is of the
\* entry that the first of the two lookups found.
Length(q) == IF req[q].hit # NoFile THEN req[q].hit
             ELSE IF req[q].op = "open" THEN req[q].known ELSE NoFile

\* The length fits the body, unless archives that differ, by their root
\* directory or by a kill, were made for the key (archive_cache_filesystem.ts:132,
\* archive/open.ts:206).
LengthFits ==
  \A q \in Request :
    (Opens(req[q]) /\ req[q].result = "ok" /\ Length(q) # NoFile) =>
      Length(q).size = req[q].body \/ Cardinality(made[req[q].key]) > 1
===============================================================================
