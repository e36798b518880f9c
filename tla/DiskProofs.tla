----------------------------- MODULE DiskProofs -----------------------------
(***************************************************************************)
(* A proof about Disk, for any locators and any number of crashes and      *)
(* errors of the file system: a call that returns an error has changed no  *)
(* file but its own, and none at all if it could not fetch, create or      *)
(* remove.  The reason is the order of the operations: those come before   *)
(* the first that writes.                                                  *)
(***************************************************************************)
EXTENDS Disk, SequenceTheorems, TLAPS

\* What a call may still have to do.
Todos ==
    {<<"get", "create", "set_len", "set_len", "write">>,
     <<"create", "set_len", "set_len", "write">>, <<"set_len", "set_len", "write">>,
     <<"create", "set_len">>, <<"set_len", "write">>,
     <<"set_len">>, <<"write">>, <<"unlink">>, <<"clear">>}

Operations == {"get", "create", "set_len", "write"}
NotWriting == {"get", "create", "unlink"}

IsCall(c) == c = Call(c.op, c.locator, c.object, c.from, c.todo)

\* A call has changed its own file only, and none before the first operation that
\* writes.
Untouched(c) ==
    /\ Others(files, ToPath(c.locator)) = Others(before, ToPath(c.locator))
    /\ Head(c.todo) \in NotWriting => files = before

\* So it is for a call that is being executed, and for one that has failed.
CallsStayLocal ==
    /\ IsCall(call)
    /\ call = NoCall \/ call.todo \in Todos
    /\ call # NoCall /\ Head(call.todo) # "clear" => Untouched(call)
    /\ failed # NoCall => call = NoCall /\ Untouched(failed)

\* No fetch, creation or removal comes after an operation that writes.
LEMMA TodosTail ==
    ASSUME NEW todo \in Todos, Len(todo) > 1
    PROVE  /\ Tail(todo) \in Todos /\ Head(todo) # "clear"
           /\ Head(Tail(todo)) \in NotWriting => Head(todo) = "get"
<1>1. CASE todo = <<"get", "create", "set_len", "set_len", "write">>
  <2>1. Tail(todo) = <<"create", "set_len", "set_len", "write">>
    BY <1>1
  <2>2. Head(todo) = "get" /\ Head(<<"create", "set_len", "set_len", "write">>) = "create"
    BY <1>1
  <2>3. <<"create", "set_len", "set_len", "write">> \in Todos
    BY Zenon DEF Todos
  <2>4. Head(Tail(todo)) = "create"
    BY <2>1, <2>2, Zenon
  <2> QED
    BY <2>1, <2>2, <2>3, <2>4 DEF NotWriting
<1>2. CASE todo = <<"create", "set_len", "set_len", "write">>
  <2>1. Tail(todo) = <<"set_len", "set_len", "write">>
    BY <1>2
  <2>2. Head(todo) = "create" /\ Head(<<"set_len", "set_len", "write">>) = "set_len"
    BY <1>2
  <2>3. <<"set_len", "set_len", "write">> \in Todos
    BY Zenon DEF Todos
  <2>4. Head(Tail(todo)) = "set_len"
    BY <2>1, <2>2, Zenon
  <2> QED
    BY <2>1, <2>2, <2>3, <2>4 DEF NotWriting
<1>3. CASE todo = <<"set_len", "set_len", "write">>
  <2>1. Tail(todo) = <<"set_len", "write">>
    BY <1>3
  <2>2. Head(todo) = "set_len" /\ Head(<<"set_len", "write">>) = "set_len"
    BY <1>3
  <2>3. <<"set_len", "write">> \in Todos
    BY Zenon DEF Todos
  <2>4. Head(Tail(todo)) = "set_len"
    BY <2>1, <2>2, Zenon
  <2> QED
    BY <2>1, <2>2, <2>3, <2>4 DEF NotWriting
<1>4. CASE todo = <<"create", "set_len">>
  <2>1. Tail(todo) = <<"set_len">>
    BY <1>4
  <2>2. Head(todo) = "create" /\ Head(<<"set_len">>) = "set_len"
    BY <1>4
  <2>3. <<"set_len">> \in Todos
    BY Zenon DEF Todos
  <2>4. Head(Tail(todo)) = "set_len"
    BY <2>1, <2>2, Zenon
  <2> QED
    BY <2>1, <2>2, <2>3, <2>4 DEF NotWriting
<1>5. CASE todo = <<"set_len", "write">>
  <2>1. Tail(todo) = <<"write">>
    BY <1>5
  <2>2. Head(todo) = "set_len" /\ Head(<<"write">>) = "write"
    BY <1>5
  <2>3. <<"write">> \in Todos
    BY Zenon DEF Todos
  <2>4. Head(Tail(todo)) = "write"
    BY <2>1, <2>2, Zenon
  <2> QED
    BY <2>1, <2>2, <2>3, <2>4 DEF NotWriting
<1>6. CASE todo \in {<<"set_len">>, <<"write">>, <<"unlink">>, <<"clear">>}
  <2>1. Len(todo) = 1
    BY <1>6
  <2> QED
    BY <2>1
<1> QED
  BY <1>1, <1>2, <1>3, <1>4, <1>5, <1>6 DEF Todos

\* The lists of operations that calls begin with.
LEMMA BeginTodos ==
    /\ Initializing \in Todos /\ Updating \in Todos /\ Copying \in Todos
    /\ Initializing \o Updating \in Todos
    /\ <<"write">> \in Todos /\ <<"unlink">> \in Todos /\ <<"clear">> \in Todos
<1>1. <<"create", "set_len">> \o <<"set_len", "write">> = <<"create", "set_len", "set_len", "write">>
  <2> DEFINE s1 == <<"create", "set_len">>
             s2 == <<"set_len", "write">>
             t == <<"create", "set_len", "set_len", "write">>
  <2>1. /\ s1 \in Seq(Operations) /\ Len(s1) = 2 /\ s1[1] = "create" /\ s1[2] = "set_len"
        /\ s2 \in Seq(Operations) /\ Len(s2) = 2 /\ s2[1] = "set_len" /\ s2[2] = "write"
        /\ t \in Seq(Operations) /\ Len(t) = 4
        /\ t[1] = "create" /\ t[2] = "set_len" /\ t[3] = "set_len" /\ t[4] = "write"
    BY DEF Operations
  <2> HIDE DEF s1, s2, t
  <2>2. /\ s1 \o s2 \in Seq(Operations) /\ Len(s1 \o s2) = Len(s1) + Len(s2)
        /\ \A i \in 1..(Len(s1) + Len(s2)) :
              (s1 \o s2)[i] = IF i <= Len(s1) THEN s1[i] ELSE s2[i - Len(s1)]
    BY <2>1, ConcatProperties
  <2>3. \A i \in 1..4 : (s1 \o s2)[i] = t[i]
    BY <2>1, <2>2
  <2>4. s1 \o s2 = t
    BY <2>1, <2>2, <2>3, SeqEqual
  <2> QED
    BY <2>4 DEF s1, s2, t
<1>2. <<"get">> \o <<"create", "set_len">> = <<"get", "create", "set_len">>
  <2> DEFINE s1 == <<"get">>
             s2 == <<"create", "set_len">>
             t == <<"get", "create", "set_len">>
  <2>1. /\ s1 \in Seq(Operations) /\ Len(s1) = 1 /\ s1[1] = "get"
        /\ s2 \in Seq(Operations) /\ Len(s2) = 2 /\ s2[1] = "create" /\ s2[2] = "set_len"
        /\ t \in Seq(Operations) /\ Len(t) = 3
        /\ t[1] = "get" /\ t[2] = "create" /\ t[3] = "set_len"
    BY DEF Operations
  <2> HIDE DEF s1, s2, t
  <2>2. /\ s1 \o s2 \in Seq(Operations) /\ Len(s1 \o s2) = Len(s1) + Len(s2)
        /\ \A i \in 1..(Len(s1) + Len(s2)) :
              (s1 \o s2)[i] = IF i <= Len(s1) THEN s1[i] ELSE s2[i - Len(s1)]
    BY <2>1, ConcatProperties
  <2>3. \A i \in 1..3 : (s1 \o s2)[i] = t[i]
    BY <2>1, <2>2
  <2>4. s1 \o s2 = t
    BY <2>1, <2>2, <2>3, SeqEqual
  <2> QED
    BY <2>4 DEF s1, s2, t
<1>3. <<"get", "create", "set_len">> \o <<"set_len", "write">>
        = <<"get", "create", "set_len", "set_len", "write">>
  <2> DEFINE s1 == <<"get", "create", "set_len">>
             s2 == <<"set_len", "write">>
             t == <<"get", "create", "set_len", "set_len", "write">>
  <2>1. /\ s1 \in Seq(Operations) /\ Len(s1) = 3
        /\ s1[1] = "get" /\ s1[2] = "create" /\ s1[3] = "set_len"
        /\ s2 \in Seq(Operations) /\ Len(s2) = 2 /\ s2[1] = "set_len" /\ s2[2] = "write"
        /\ t \in Seq(Operations) /\ Len(t) = 5 /\ t[1] = "get" /\ t[2] = "create"
        /\ t[3] = "set_len" /\ t[4] = "set_len" /\ t[5] = "write"
    BY DEF Operations
  <2> HIDE DEF s1, s2, t
  <2>2. /\ s1 \o s2 \in Seq(Operations) /\ Len(s1 \o s2) = Len(s1) + Len(s2)
        /\ \A i \in 1..(Len(s1) + Len(s2)) :
              (s1 \o s2)[i] = IF i <= Len(s1) THEN s1[i] ELSE s2[i - Len(s1)]
    BY <2>1, ConcatProperties
  <2>3. \A i \in 1..5 : (s1 \o s2)[i] = t[i]
    BY <2>1, <2>2
  <2>4. s1 \o s2 = t
    BY <2>1, <2>2, <2>3, SeqEqual
  <2> QED
    BY <2>4 DEF s1, s2, t
<1>4. Copying = (<<"get">> \o <<"create", "set_len">>) \o <<"set_len", "write">>
  BY DEF Copying, Initializing, Updating
<1>5. Copying = <<"get", "create", "set_len", "set_len", "write">>
  BY <1>2, <1>3, <1>4
<1>6. Initializing \o Updating = <<"create", "set_len", "set_len", "write">>
  BY <1>1 DEF Initializing, Updating
<1> QED
  BY <1>5, <1>6 DEF Initializing, Updating, Todos

\* Calls are made of their parts.
LEMMA CallParts ==
    ASSUME NEW op, NEW l, NEW object, NEW from, NEW todo
    PROVE  IsCall(Call(op, l, object, from, todo)) /\ Call(op, l, object, from, todo).todo = todo
  BY DEF IsCall, Call

\* A call whose object or list of operations changes is still a call.
LEMMA CallExcept ==
    ASSUME NEW c, IsCall(c), NEW x
    PROVE  /\ IsCall([c EXCEPT !.todo = x]) /\ [c EXCEPT !.todo = x].todo = x
           /\ [c EXCEPT !.todo = x].locator = c.locator
           /\ IsCall([c EXCEPT !.object = x]) /\ [c EXCEPT !.object = x].todo = c.todo
           /\ [c EXCEPT !.object = x].locator = c.locator
<1>1. c = [op |-> c.op, locator |-> c.locator, object |-> c.object, from |-> c.from,
           todo |-> c.todo]
  BY DEF IsCall, Call
<1>2. [c EXCEPT !.todo = x] = [op |-> c.op, locator |-> c.locator, object |-> c.object,
                               from |-> c.from, todo |-> x]
  BY <1>1
<1>3. [c EXCEPT !.object = x] = [op |-> c.op, locator |-> c.locator, object |-> x,
                                 from |-> c.from, todo |-> c.todo]
  BY <1>1
<1> QED
  BY <1>2, <1>3 DEF IsCall, Call

\* The other files are the same when a file is written or removed.
LEMMA OwnFile ==
    ASSUME NEW path, NEW file
    PROVE  /\ Others(With(path, file), path) = Others(files, path)
           /\ Others(Without({path}), path) = Others(files, path)
<1>1. DOMAIN With(path, file) = DOMAIN files \cup {path}
  BY DEF With
<1>2. \A p \in DOMAIN files \ {path} : With(path, file)[p] = files[p]
  BY DEF With
<1>3. Others(With(path, file), path) = Others(files, path)
  BY <1>1, <1>2 DEF Others, Restrict
<1>4. DOMAIN Without({path}) = DOMAIN files \ {path}
  BY DEF Without, Restrict
<1>5. \A p \in DOMAIN files \ {path} : Without({path})[p] = files[p]
  BY DEF Without, Restrict
<1>6. Others(Without({path}), path) = Others(files, path)
  BY <1>4, <1>5 DEF Others, Restrict
<1> QED
  BY <1>3, <1>6

\* A call that begins has not written yet.
LEMMA BeginKeeps ==
    ASSUME NEW c, IsCall(c), c.todo \in Todos, NEW passed, Begin(passed, c)
    PROVE  CallsStayLocal'
<1>1. call' = c /\ failed' = NoCall /\ before' = files /\ files' = files
  BY DEF Begin
<1> QED
  BY <1>1 DEF CallsStayLocal, Untouched

\* What an operation does to the files, for the call to go on or to return Ok.
Operates ==
    /\ Others(files', Path) = Others(files, Path) \/ Head(call.todo) = "clear"
    /\ Head(call.todo) = "get" => files' = files

\* A call that goes on, or returns Ok.
LEMMA ProceedKeeps ==
    ASSUME CallsStayLocal, call # NoCall, NEW c, IsCall(c), c.todo = call.todo,
           c.locator = call.locator, Proceed(c), Operates
    PROVE  CallsStayLocal'
<1>1. call.todo \in Todos /\ failed = NoCall
  BY DEF CallsStayLocal
<1>2. CASE Len(c.todo) > 1
  <2>1. call' = [c EXCEPT !.todo = Tail(c.todo)] /\ before' = before /\ failed' = failed
    BY <1>2 DEF Proceed
  <2>2. IsCall(call') /\ call'.todo = Tail(call.todo) /\ call'.locator = call.locator
    <3>1. /\ IsCall([c EXCEPT !.todo = Tail(c.todo)])
          /\ [c EXCEPT !.todo = Tail(c.todo)].todo = Tail(c.todo)
          /\ [c EXCEPT !.todo = Tail(c.todo)].locator = c.locator
      BY CallExcept
    <3> QED
      BY <2>1, <3>1
  <2>3. /\ call'.todo \in Todos /\ Head(call.todo) # "clear"
        /\ Head(call'.todo) \in NotWriting => Head(call.todo) = "get"
    BY <1>1, <1>2, <2>2, TodosTail
  <2>4. Untouched(call)
    BY <2>3 DEF CallsStayLocal
  <2>5. Others(files', Path) = Others(before, Path)
    BY <2>3, <2>4 DEF Untouched, Operates, Path
  <2>6. Head(call.todo) = "get" => files' = before
    BY <2>4 DEF Untouched, NotWriting, Operates
  <2>7. Untouched(call)'
    BY <2>1, <2>2, <2>3, <2>5, <2>6 DEF Untouched, Path
  <2> QED
    BY <1>1, <2>1, <2>2, <2>3, <2>7 DEF CallsStayLocal
<1>3. CASE ~(Len(c.todo) > 1)
  <2>1. call' = NoCall /\ failed' = failed
    BY <1>3 DEF Proceed
  <2>2. IsCall(call')
    BY <2>1, CallParts DEF NoCall
  <2> QED
    BY <1>1, <2>1, <2>2 DEF CallsStayLocal
<1> QED
  BY <1>2, <1>3

\* A call that returns an error, with what it has done.
LEMMA FailKeeps ==
    ASSUME call' = NoCall, failed' = call, before' = before,
           Others(files', Path) = Others(before, Path),
           Head(call.todo) \in NotWriting => files' = before
    PROVE  CallsStayLocal'
<1>1. IsCall(call')
  BY CallParts DEF NoCall
<1>2. Untouched(failed)'
  BY DEF Untouched, Path
<1> QED
  BY <1>1, <1>2 DEF CallsStayLocal

\* The process starts again.
LEMMA LoadParts ==
    ASSUME NEW paths
    PROVE  IsCall(LoadCall(paths)) /\ (LoadCall(paths) = NoCall \/ LoadCall(paths).todo \in Todos)
<1>1. CASE ToPath(CoordinatorState) \in paths
  BY <1>1, CallParts DEF LoadCall, NoCall
<1>2. CASE ToPath(CoordinatorState) \notin paths
  BY <1>2, CallParts, BeginTodos DEF LoadCall, InsertCall
<1> QED
  BY <1>1, <1>2

\* Storage starts with Disk::load's insert, which has written nothing yet.
LEMMA InitStaysLocal == Init => CallsStayLocal
  BY LoadParts DEF Init, CallsStayLocal, Untouched

\* Every step keeps the order.
LEMMA StepStaysLocal ==
    ASSUME CallsStayLocal, [Next]_vars
    PROVE  CallsStayLocal'
<1>1. ASSUME NEW l, Initialize(l) PROVE CallsStayLocal'
  BY <1>1, CallParts, BeginTodos, BeginKeeps DEF Initialize
<1>2. ASSUME NEW l, NEW o, Insert(l, o) PROVE CallsStayLocal'
  BY <1>2, CallParts, BeginTodos, BeginKeeps DEF Insert, InsertCall
<1>3. ASSUME NEW l, NEW o, Update(l, o) PROVE CallsStayLocal'
  BY <1>3, CallParts, BeginTodos, BeginKeeps DEF Update
<1>4. ASSUME NEW l, NEW o, Writer(l, o) PROVE CallsStayLocal'
  BY <1>4, CallParts, BeginTodos, BeginKeeps DEF Writer
<1>5. ASSUME NEW l, NEW m, Copy(l, m) PROVE CallsStayLocal'
  BY <1>5, CallParts, BeginTodos, BeginKeeps DEF Copy
<1>6. ASSUME NEW l, RemoveObject(l) PROVE CallsStayLocal'
  BY <1>6, CallParts, BeginTodos, BeginKeeps DEF RemoveObject
<1>7. ASSUME NEW h, ClearRoundFiles(h) PROVE CallsStayLocal'
  <2> DEFINE c == Call("clear", RoundState(h), Zeros(0), RoundState(h), <<"clear">>)
  <2>1. Begin(TRUE, c)
    BY <1>7 DEF ClearRoundFiles
  <2>2. IsCall(c) /\ c.todo \in Todos
    BY CallParts, BeginTodos
  <2> HIDE DEF c
  <2> QED
    BY <2>1, <2>2, BeginKeeps
<1>8. IsCall(call)
  BY DEF CallsStayLocal
<1>9. CASE Create
  <2>1. call # NoCall /\ Head(call.todo) = "create"
    BY <1>9 DEF Create, Doing
  <2>2. CASE files' = With(Path, Zeros(0)) /\ Proceed(call)
    BY <1>8, <2>1, <2>2, OwnFile, ProceedKeeps DEF Operates
  <2>3. CASE Fail
    <3>1. Untouched(call)
      BY <2>1 DEF CallsStayLocal
    <3> QED
      BY <2>1, <2>3, <3>1, FailKeeps DEF Fail, Untouched, NotWriting, Path
  <2> QED
    BY <1>9, <2>2, <2>3 DEF Create
<1>10. CASE Get
  <2>1. call # NoCall /\ Head(call.todo) = "get"
    BY <1>10 DEF Get, Doing
  <2>2. CASE CanGet(call.from)
    <3> DEFINE c == [call EXCEPT !.object = FileOf(call.from)]
    <3>1. files' = files /\ Proceed(c)
      BY <1>10, <2>2 DEF Get
    <3>2. IsCall(c) /\ c.todo = call.todo /\ c.locator = call.locator
      BY <1>8, CallExcept
    <3> HIDE DEF c
    <3> QED
      BY <2>1, <3>1, <3>2, ProceedKeeps DEF Operates
  <2>3. CASE ~CanGet(call.from)
    <3>1. Untouched(call)
      BY <2>1 DEF CallsStayLocal
    <3>2. Fail
      BY <1>10, <2>3 DEF Get
    <3> QED
      BY <2>1, <3>1, <3>2, FailKeeps DEF Fail, Untouched, NotWriting, Path
  <2> QED
    BY <2>2, <2>3
<1>11. CASE SetFileLen \/ Write \/ Unlink
  <2>1. call # NoCall /\ Head(call.todo) # "get" /\ Proceed(call)
    BY <1>11 DEF SetFileLen, Write, Unlink, Doing
  <2>2. Others(files', Path) = Others(files, Path)
    BY <1>11, OwnFile DEF SetFileLen, Write, Unlink
  <2> QED
    BY <1>8, <2>1, <2>2, ProceedKeeps DEF Operates
<1>12. CASE Clear
  <2>1. call # NoCall /\ Head(call.todo) = "clear"
    BY <1>12 DEF Clear, Doing
  <2>2. Proceed(call) \/ UNCHANGED <<call, failed, before>>
    BY <1>12 DEF Clear
  <2>3. CASE Proceed(call)
    BY <1>8, <2>1, <2>3, ProceedKeeps DEF Operates
  <2>4. CASE UNCHANGED <<call, failed, before>>
    <3>1. failed = NoCall
      BY <2>1 DEF CallsStayLocal
    <3> QED
      BY <2>1, <2>4, <3>1 DEF CallsStayLocal
  <2> QED
    BY <2>2, <2>3, <2>4
<1>13. CASE Crash
  <2>1. call' = LoadCall(DOMAIN files) /\ before' = files' /\ failed' = NoCall
    BY <1>13 DEF Crash
  <2> QED
    BY <2>1, LoadParts DEF CallsStayLocal, Untouched
<1>14. CASE IoError
  <2>1. /\ call # NoCall /\ Head(call.todo) # "clear" /\ Interrupted
        /\ call' = NoCall /\ failed' = call /\ before' = before
    BY <1>14 DEF IoError, Fault
  <2>2. Untouched(call)
    BY <2>1 DEF CallsStayLocal
  <2>3. CASE files' = files
    BY <2>1, <2>2, <2>3, FailKeeps DEF Untouched, Path
  <2>4. CASE Head(call.todo) = "write" /\ files' = With(Path, Torn(files[Path].len))
    <3>1. Others(files', Path) = Others(before, Path)
      BY <2>2, <2>4, OwnFile DEF Untouched, Path
    <3> QED
      BY <2>1, <2>4, <3>1, FailKeeps DEF NotWriting
  <2> QED
    BY <2>1, <2>3, <2>4 DEF Interrupted
<1>15. CASE ClearSkips
  <2>1. call # NoCall /\ call' = NoCall /\ failed' = failed
    BY <1>15 DEF ClearSkips, Fault
  <2>2. failed = NoCall /\ IsCall(call')
    BY <2>1, CallParts DEF CallsStayLocal, NoCall
  <2> QED
    BY <2>1, <2>2 DEF CallsStayLocal
<1>16. CASE UNCHANGED vars
  BY <1>16 DEF vars, CallsStayLocal, Untouched
<1> QED
  BY <1>1, <1>2, <1>3, <1>4, <1>5, <1>6, <1>7, <1>9, <1>10, <1>11, <1>12, <1>13, <1>14, <1>15,
     <1>16 DEF Next

\* A call that returns an error has changed no file but its own, and none at all if
\* it could not fetch, create or remove (disk.rs: initialize, insert, update, copy,
\* remove): in particular Disk::copy fetches its source before it creates the
\* destination.
THEOREM FailureAlwaysLocal == Spec => []FailureStaysLocal
<1>1. Spec => []CallsStayLocal
  BY InitStaysLocal, StepStaysLocal, PTL DEF Spec
<1>2. CallsStayLocal => FailureStaysLocal
  BY DEF CallsStayLocal, FailureStaysLocal, Untouched, NotWriting
<1> QED
  BY <1>1, <1>2, PTL
=============================================================================
