-------------------------------- MODULE Disk --------------------------------
(***************************************************************************)
(* The coordinator's storage on a file system                              *)
(* (phase1-coordinator/src/storage/disk.rs and storage.rs).                *)
(*                                                                         *)
(* A call of Disk is a sequence of operations on the file system (todo).   *)
(* Each of them may return an error, which ends the call there; and the    *)
(* process can die between two of them or in the middle of a write, and    *)
(* then starts again with Disk::load.  The calls themselves are made one   *)
(* after the other, under the coordinator's &mut borrow.                   *)
(*                                                                         *)
(* A path is a sequence of names below the base directory.  A name with a  *)
(* number in it keeps the digits of the number apart, since to_locator     *)
(* parses them and clear_dir_files searches the text for one.  A file is   *)
(* its length and what its bytes are: zeros, the bytes of the object with  *)
(* the given value (whole), or neither (torn).                             *)
(***************************************************************************)
EXTENDS Integers, Sequences, SequencesExt, FiniteSets, FiniteSetsExt, Functions

CONSTANTS
    Locators,   \* the locators in use
    MaxFaults   \* bound: crashes and errors of the file system in a behaviour

VARIABLES
    files,     \* the files, by path
    dirs,      \* the round and chunk directories there are
    call,      \* the call that is being executed
    failed,    \* the last call begun, as far as it came, if it returned an error
    before,    \* the files when the last call began
    promised,  \* what the calls that returned Ok have promised, by locator
    cut,       \* the locators whose files a crash or an error has cut short
    faults     \* counter for the bound

vars == <<files, dirs, call, failed, before, promised, cut, faults>>

-----------------------------------------------------------------------------
(***************************************************************************)
(* Locators and paths.                                                     *)
(***************************************************************************)
CoordinatorState == [kind |-> "coordinator_state", height |-> 0, chunk |-> 0,
                     id |-> 0, verified |-> FALSE]
RoundHeight == [CoordinatorState EXCEPT !.kind = "round_height"]
RoundState(h) == [CoordinatorState EXCEPT !.kind = "round_state", !.height = h]
RoundFile(h) == [CoordinatorState EXCEPT !.kind = "round_file", !.height = h]
ContributionFile(h, c, i, v) ==
    [kind |-> "contribution", height |-> h, chunk |-> c, id |-> i, verified |-> v]
ContributionFileSignature(h, c, i, v) ==
    [kind |-> "signature", height |-> h, chunk |-> c, id |-> i, verified |-> v]

\* The decimal digits of a number below 100, and the number with given digits.
Digits(n) == IF n < 10 THEN <<n>> ELSE <<n \div 10, n % 10>>
Number(digits) == IF Len(digits) = 1 THEN digits[1] ELSE 10 * digits[1] + digits[2]

Name(stem, n, extension) == [stem |-> stem, digits |-> Digits(n), extension |-> extension]
Plain(text) == [stem |-> text, digits |-> << >>, extension |-> << >>]

RoundDirectory(h) == <<Name("round_", h, << >>)>>
ChunkDirectory(h, c) == Append(RoundDirectory(h), Name("chunk_", c, << >>))

Extension(l) ==
    <<IF l.verified THEN "verified" ELSE "unverified">>
      \o (IF l.kind = "signature" THEN <<"signature">> ELSE << >>)

\* DiskResolver::to_path
ToPath(l) ==
    CASE l.kind = "coordinator_state" -> <<Plain("coordinator.json")>>
      [] l.kind = "round_height" -> <<Plain("round_height")>>
      [] l.kind = "round_state" -> Append(RoundDirectory(l.height), Plain("state.json"))
      [] l.kind = "round_file" ->
           Append(RoundDirectory(l.height), Name("round_", l.height, <<"verified">>))
      [] OTHER ->
           Append(ChunkDirectory(l.height, l.chunk), Name("contribution_", l.id, Extension(l)))

\* Mutant: a signature is taken for the file it signs.
ContributionLocators_NoSignature(h, c, name) ==
    {l \in {ContributionFile(h, c, Number(name.digits), v) : v \in BOOLEAN} :
        Head(Extension(l)) = Head(name.extension)}

\* The part of to_locator for a name in a chunk directory.
ContributionLocators(h, c, name) ==
    {l \in UNION {{ContributionFile(h, c, Number(name.digits), v),
                   ContributionFileSignature(h, c, Number(name.digits), v)} : v \in BOOLEAN} :
        name.stem = "contribution_" /\ Extension(l) = name.extension}

\* DiskResolver::to_locator: the locator of a path, the empty set for an error.
\* The names of directories are compared with the ones their numbers give.
ToLocator(path) ==
    LET h == Number(path[1].digits)
        c == Number(path[2].digits)
        inRound == Len(path) > 1 /\ Front(path) = RoundDirectory(h)
    IN  CASE path = ToPath(CoordinatorState) -> {CoordinatorState}
          [] path = ToPath(RoundHeight) -> {RoundHeight}
          [] inRound /\ path = ToPath(RoundState(h)) -> {RoundState(h)}
          [] inRound /\ path = ToPath(RoundFile(h)) -> {RoundFile(h)}
          [] Len(path) = 3 /\ Front(path) = ChunkDirectory(h, c) ->
               ContributionLocators(h, c, path[3])
          [] OTHER -> {}

-----------------------------------------------------------------------------
(***************************************************************************)
(* Objects and files.                                                      *)
(***************************************************************************)
File(len, bytes, value) == [len |-> len, bytes |-> bytes, value |-> value]
Zeros(len) == File(len, "zeros", 0)
Torn(len) == File(len, "torn", 0)
Whole(len, value) == File(len, "whole", value)

IsJson(l) == l.kind \in {"coordinator_state", "round_height", "round_state"}

\* The sizes that get, reader and writer ask for (of no meaning for JSON).
ExpectedSize(l) ==
    CASE l.kind = "contribution" -> IF l.verified THEN 6 ELSE 5
      [] l.kind = "signature" -> IF l.verified THEN 4 ELSE 3
      [] OTHER -> 7

\* The objects callers store, as the files they make: the heights 9 and 10,
\* states, responses of the right size or too short, ...
Objects(l) ==
    CASE l.kind = "round_height" -> {Whole(1, 9), Whole(2, 10)}
      [] IsJson(l) -> {Whole(2, 1)}
      [] l.kind = "contribution" /\ ~l.verified ->
           {Whole(ExpectedSize(l), 1), Whole(ExpectedSize(l) - 1, 2)}
      [] OTHER -> {Whole(ExpectedSize(l), 1)}

\* File::set_len: a height of two digits that loses the second is another height.
SetLen(l, file, len) ==
    CASE len = file.len -> file
      [] file.bytes = "zeros" -> Zeros(len)
      [] l.kind = "round_height" /\ file.bytes = "whole" /\ len < file.len ->
           Whole(len, Head(Digits(file.value)))
      [] OTHER -> Torn(len)

\* File::write_all of an object at the start of a file.
WriteAll(file, object) == IF file.len > object.len THEN Torn(file.len) ELSE object

Exists(l) == ToPath(l) \in DOMAIN files
FileOf(l) == files[ToPath(l)]

HasExpectedSize(l) == IsJson(l) \/ FileOf(l).len = ExpectedSize(l)

\* Disk::get returns Ok: the file has its size, and what is JSON parses.
CanGet(l) ==
    /\ HasExpectedSize(l)
    /\ l.kind \in {"contribution", "round_file"} \/ FileOf(l).bytes = "whole"

-----------------------------------------------------------------------------
(***************************************************************************)
(* Calls.  Each one is a list of operations to do, once its checks are     *)
(* passed; a call they refuse returns an error and does nothing at all.    *)
(***************************************************************************)
Call(op, l, object, from, todo) ==
    [op |-> op, locator |-> l, object |-> object, from |-> from, todo |-> todo]
NoCall == Call("none", CoordinatorState, Zeros(0), CoordinatorState, << >>)

Initializing == <<"create", "set_len">>

\* Mutant: the file keeps the length it had.
Updating_KeepsLength == <<"write">>

Updating == <<"set_len", "write">>

\* Mutant: the destination is initialized before the source is fetched.
Copying_InitializesFirst == Initializing \o <<"get">> \o Updating

Copying == <<"get">> \o Initializing \o Updating

InsertCall(l, object) == Call("insert", l, object, l, Initializing \o Updating)

Begin(passed, c) ==
    /\ call = NoCall
    /\ passed
    /\ call' = c
    /\ failed' = NoCall
    /\ before' = files
    /\ UNCHANGED <<files, dirs, promised, cut, faults>>

\* Files of contributions, signatures and rounds are initialized with their size.
Initialize(l) ==
    ~IsJson(l) /\ Begin(~Exists(l), Call("initialize", l, Zeros(ExpectedSize(l)), l, Initializing))

Insert(l, object) == IsJson(l) /\ Begin(~Exists(l), InsertCall(l, object))

Update(l, object) == Begin(Exists(l), Call("update", l, object, l, Updating))

\* An empty file cannot be mapped; the size of a signature is not looked at.
CanMap(l) == FileOf(l).len > 0 /\ (l.kind = "signature" \/ HasExpectedSize(l))

\* Disk::writer, and what the caller writes to the file it has mapped.
Writer(l, object) ==
    /\ ~IsJson(l)
    /\ object.len = ExpectedSize(l)
    /\ Begin(Exists(l) /\ CanMap(l), Call("writer", l, object, l, <<"write">>))

\* The copies made are those of a contribution to a challenge, which is verified.
Copy(from, l) ==
    /\ from.kind = "contribution"
    /\ l.kind = "contribution" /\ l.verified
    /\ Begin(Exists(from) /\ ~Exists(l), Call("copy", l, Zeros(0), from, Copying))

\* Remove actions name their file by its locator or by its path; the coordinator
\* state and the round height are never removed.
RemoveObject(l) ==
    /\ l \notin {CoordinatorState, RoundHeight}
    /\ \E k \in {l} \cup ToLocator(ToPath(l)) :
          Begin(Exists(k), Call("remove", k, Zeros(0), k, <<"unlink">>))

\* StorageAction::ClearRoundFiles
ClearRoundFiles(h) ==
    Begin(TRUE, Call("clear", RoundState(h), Zeros(0), RoundState(h), <<"clear">>))

-----------------------------------------------------------------------------
(***************************************************************************)
(* The operations on the file system.                                      *)
(***************************************************************************)
Path == ToPath(call.locator)

With(path, file) == [p \in DOMAIN files \cup {path} |-> IF p = path THEN file ELSE files[p]]
Without(paths) == Restrict(files, DOMAIN files \ paths)

\* What the caller may rely on once the call has returned Ok.
Promise(l, file) ==
    [k \in DOMAIN promised \cup {l} |-> IF k = l THEN file ELSE promised[k]]
Withdraw(L) == Restrict(promised, DOMAIN promised \ L)

\* The locators of round h and the next that clearing round h is to remove.
ToClear(h) ==
    {l \in Locators :
        /\ l.kind \in {"contribution", "signature", "round_file"}
        /\ l.height = h + 1 \/ (l.height = h /\ (l.kind = "round_file" \/ l.id # 0))}

Promised ==
    CASE call.op = "remove" -> Withdraw({call.locator})
      [] call.op = "clear" -> Withdraw(ToClear(call.locator.height))
      [] call.op = "copy" /\ call.from \notin cut -> Promise(call.locator, promised[call.from])
      [] OTHER -> Promise(call.locator, call.object)

Touched == IF call.op = "clear" THEN ToClear(call.locator.height) ELSE {call.locator}

\* The call goes on, or returns Ok after its last operation.
Proceed(c) ==
    IF Len(c.todo) > 1
    THEN call' = [c EXCEPT !.todo = Tail(@)] /\ UNCHANGED <<failed, before, promised, cut>>
    ELSE /\ call' = NoCall
         /\ before' = files'
         /\ promised' = Promised
         /\ cut' = cut \ Touched
         /\ UNCHANGED failed

Fail ==
    /\ call' = NoCall
    /\ failed' = call
    /\ UNCHANGED <<files, dirs, before, promised, cut>>

Doing(operation) ==
    /\ call # NoCall
    /\ Head(call.todo) = operation
    /\ UNCHANGED faults

\* chunk_directory_init: directories that are missing are made.
MakeDirectories(l) == dirs \cup {RoundDirectory(l.height), ChunkDirectory(l.height, l.chunk)}

\* Only a contribution file has its directories made; a file of another kind
\* cannot be created without its directory.
Create ==
    LET l == call.locator
        made == IF l.kind = "contribution" THEN MakeDirectories(l) ELSE dirs
    IN  /\ Doing("create")
        /\ IF Front(Path) \in made
           THEN dirs' = made /\ files' = With(Path, Zeros(0)) /\ Proceed(call)
           ELSE Fail

SetFileLen ==
    /\ Doing("set_len")
    /\ files' = With(Path, SetLen(call.locator, files[Path], call.object.len))
    /\ Proceed(call)
    /\ UNCHANGED dirs

Write ==
    /\ Doing("write")
    /\ files' = With(Path, WriteAll(files[Path], call.object))
    /\ Proceed(call)
    /\ UNCHANGED dirs

Get ==
    /\ Doing("get")
    /\ IF CanGet(call.from)
       THEN UNCHANGED <<files, dirs>> /\ Proceed([call EXCEPT !.object = FileOf(call.from)])
       ELSE Fail

Unlink ==
    /\ Doing("unlink")
    /\ files' = Without({Path})
    /\ Proceed(call)
    /\ UNCHANGED dirs

\* The files clear_dir_files leaves: those whose path contains "state.json", or
\* "contribution_0" in the round itself.
IsKept(name, delete_initial) ==
    \/ name = Plain("state.json")
    \/ ~delete_initial /\ name.stem = "contribution_" /\ Head(name.digits) = 0

\* The files clear_dir_files removes from the directory of round h.
ClearedIn(h, delete_initial) ==
    {path \in DOMAIN files :
        /\ Len(path) > 1 /\ path[1] = RoundDirectory(h)[1]
        /\ ~IsKept(Last(path), delete_initial)
        /\ ToLocator(path) # {}}

\* One file after the other, in the order of the directory; first those of the
\* next round.
Clear ==
    LET h == call.locator.height
        next == ClearedIn(h + 1, TRUE)
        todo == IF next # {} THEN next ELSE ClearedIn(h, FALSE)
    IN  /\ Doing("clear")
        /\ IF todo = {}
           THEN UNCHANGED files /\ Proceed(call)
           ELSE /\ \E path \in todo :
                     files' = Without({ToPath(l) : l \in ToLocator(path)})
                /\ UNCHANGED <<call, failed, before, promised, cut>>
        /\ UNCHANGED dirs

-----------------------------------------------------------------------------
(***************************************************************************)
(* Crashes and errors of the file system.                                  *)
(***************************************************************************)
Fault ==
    /\ faults < MaxFaults
    /\ faults' = faults + 1
    /\ call # NoCall
    /\ UNCHANGED dirs

\* The operation at hand is not done, or a write is done in part.
Interrupted ==
    \/ UNCHANGED files
    \/ Head(call.todo) = "write" /\ files' = With(Path, Torn(files[Path].len))

\* Nothing is promised any more of a file that the call has begun to change.
Lose(L) == cut' = cut \cup L /\ promised' = Withdraw(L)
LoseTouched == Lose(IF files' = before THEN {} ELSE Touched)

\* Disk::load: the coordinator state is inserted if it is not there.
LoadCall(paths) ==
    IF ToPath(CoordinatorState) \in paths THEN NoCall
    ELSE InsertCall(CoordinatorState, Whole(2, 1))

\* The process dies in the middle of a call and starts again.
Crash ==
    /\ Fault
    /\ Interrupted
    /\ call' = LoadCall(DOMAIN files)
    /\ failed' = NoCall
    /\ before' = files'
    /\ LoseTouched

\* The call returns the error of its operation, and the process goes on with what
\* is done of the call.  An error in Disk::load ends the process, as a crash does.
IoError ==
    /\ Fault
    /\ Head(call.todo) # "clear"
    /\ call # InsertCall(CoordinatorState, Whole(2, 1))
    /\ Interrupted
    /\ call' = NoCall
    /\ failed' = call
    /\ LoseTouched
    /\ UNCHANGED before

\* clear_dir_files goes on after an error, and says nothing of the files it leaves.
ClearSkips ==
    LET h == call.locator.height
        todo == ClearedIn(h + 1, TRUE) \cup ClearedIn(h, FALSE)
    IN  /\ Fault
        /\ Head(call.todo) = "clear"
        /\ \E left \in SUBSET todo \ {{}} :
              /\ files' = Without(todo \ left)
              /\ cut' = (cut \ Touched) \cup {l \in Touched : ToPath(l) \in left}
        /\ call' = NoCall
        /\ before' = files'
        /\ promised' = Promised
        /\ UNCHANGED failed

Init ==
    /\ files = [path \in {} |-> Zeros(0)]
    /\ dirs = {<< >>}
    /\ call = LoadCall({})
    /\ failed = NoCall
    /\ before = files
    /\ promised = [l \in {} |-> Zeros(0)]
    /\ cut = {}
    /\ faults = 0

Next ==
    \/ \E l \in Locators : Initialize(l) \/ RemoveObject(l)
    \/ \E l \in Locators : \E o \in Objects(l) : Insert(l, o) \/ Update(l, o) \/ Writer(l, o)
    \/ \E l, m \in Locators : Copy(l, m)
    \/ \E l \in Locators : l.kind = "round_state" /\ ClearRoundFiles(l.height)
    \/ Create \/ SetFileLen \/ Write \/ Get \/ Unlink \/ Clear
    \/ Crash \/ IoError \/ ClearSkips

Spec == Init /\ [][Next]_vars

-----------------------------------------------------------------------------
(***************************************************************************)
(* Properties.                                                             *)
(***************************************************************************)
\* Storage behaves as a map from locators to objects: between calls, whatever
\* was inserted, updated, copied, removed or cleared before, every file that no
\* crash or error has cut short is the one the last call on its locator promised,
\* byte for byte, and there is a file for nothing else.
StoreAgrees ==
    call = NoCall =>
        \A l \in Locators \ cut :
            /\ Exists(l) <=> l \in DOMAIN promised
            /\ Exists(l) => FileOf(l) = promised[l]

\* The files except the one at the given path.
Others(content, path) == Restrict(content, DOMAIN content \ {path})

\* A call that returns an error, however far it had come, has changed no file but
\* its own; and none at all if it could not fetch, create or remove, so that in
\* particular a copy whose source is damaged leaves no destination in the way of
\* the next one.  An error after that leaves a file that initialize, insert and
\* copy refuse from then on (StorageLocatorAlreadyExists).
FailureStaysLocal ==
    failed # NoCall =>
        /\ Others(files, ToPath(failed.locator)) = Others(before, ToPath(failed.locator))
        /\ Head(failed.todo) \in {"get", "create", "unlink"} => files = before

\* Every file in storage is found again from its path, as RemoveAction and
\* clear_round_files do, and no two locators share a path.
FoundAgain ==
    \A path \in DOMAIN files : {ToPath(l) : l \in ToLocator(path)} = {path}
                               /\ Cardinality(ToLocator(path)) = 1
=============================================================================
