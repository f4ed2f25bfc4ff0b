---------------------------- MODULE Frontend_proofs ----------------------------
(***************************************************************************)
(* The tab, proved of Frontend for every value of the constants: no order  *)
(* of answers, lost or late, makes a page wait for a request that is not   *)
(* under way; and a tab that waits for its answers shows, once it has them *)
(* all, what its URL names and the picks the server keeps.                 *)
(***************************************************************************)
EXTENDS Frontend, Catalogue_proofs

Op == {"browse", "item", "search", "libraries", "set_main"}

(* What the pages ask: the listing or item of a library by name, or nothing
   that an answer has to match. *)
TabRequest(r) ==
  \/ \E library, dir : r = BrowseRequest(library, dir)
  \/ \E library, path : r = ItemRequest(library, path)
  \/ r.op \in {"search", "libraries", "set_main"}

CallOver(R, A) ==
  [request : R, phase : {"sent", "checked", "answered"}, answer : A]

(* The requests under way: whatever they are answered, records of one shape,
   each for one of the five operations. *)
AreCalls(s) ==
  \E R, A : (\A r \in R : TabRequest(r)) /\ s \in Seq(CallOver(R, A))

RequestsInv == AreCalls(calls)

(* A loading page knows the route it is of, a loaded listing its number. *)
PageInv ==
  /\ page.state \in {"loading", "loaded", "failed"}
  /\ page.state = "loading" =>
       \E route \in Route : page = [route |-> route, state |-> "loading"]
  /\ page.state = "loaded" /\ page.route.page = "browse" =>
       \E listing, number : page = LoadedListing(listing, number)

TabInv == RequestsInv /\ PageInv /\ LoadingIsAwaited

(* The requests under way as a set, which the order of answers does not matter to. *)
RequestsOf(s) == {s[i].request : i \in DOMAIN s}

LEMMA RequestOp ==
  ASSUME NEW r, TabRequest(r)
  PROVE  r.op \in Op
  BY DEF TabRequest, Op, BrowseRequest, ItemRequest

LEMMA AwaitedRequest ==
  LoadingIsAwaited <=>
    (page.state = "loading" => \E r \in RequestsOf(calls) : <<r>> = RequestOf(page.route))
  BY DEF LoadingIsAwaited, RequestsOf
-------------------------------------------------------------------------------
(* Requests. *)

LEMMA RequestOfRoute ==
  ASSUME NEW route \in Route
  PROVE  /\ \E r : RequestOf(route) = <<r>> /\ TabRequest(r)
         /\ \A r : RequestOf(route) = <<r>> =>
              /\ r.op = "browse" <=> route.page = "browse"
              /\ r.op = "item" <=> route.page = "player"
              /\ r.op = "search" <=> route.page = "search"
              /\ r.op = "libraries" <=> route.page = "home"
              /\ r.op # "set_main"
<1>1. route.page \in {"home", "browse", "player", "search"}
  BY DEF Route
<1>2. CASE route.page = "home"
  <2>1. RequestOf(route) = << [op |-> "libraries"] >>
    BY <1>2 DEF RequestOf
  <2> QED
    BY <1>2, <2>1 DEF TabRequest
<1>3. CASE route.page = "browse"
  <2>1. RequestOf(route) = << BrowseRequest(route.library, route.dir) >>
    BY <1>3 DEF RequestOf
  <2> QED
    BY <1>3, <2>1 DEF TabRequest, BrowseRequest
<1>4. CASE route.page = "player"
  <2>1. RequestOf(route) = << ItemRequest(route.library, route.path) >>
    BY <1>4 DEF RequestOf
  <2> QED
    BY <1>4, <2>1 DEF TabRequest, ItemRequest
<1>5. CASE route.page = "search"
  <2>1. RequestOf(route) = << [op |-> "search", library |-> route.scope] >>
    BY <1>5 DEF RequestOf
  <2> QED
    BY <1>5, <2>1 DEF TabRequest
<1> QED
  BY <1>1, <1>2, <1>3, <1>4, <1>5

(* A call more. *)
LEMMA AppendCall ==
  ASSUME NEW s, AreCalls(s), NEW r, TabRequest(r)
  PROVE  /\ AreCalls(Append(s, Call(r)))
         /\ RequestsOf(Append(s, Call(r))) = RequestsOf(s) \cup {r}
         /\ s \o CallsOf(<<r>>) = Append(s, Call(r))
         /\ Len(Append(s, Call(r))) = Len(s) + 1
         /\ \A j \in 1..Len(s) : Append(s, Call(r))[j] = s[j]
         /\ Append(s, Call(r))[Len(s) + 1] = Call(r)
<1>1. PICK R, A : (\A q \in R : TabRequest(q)) /\ s \in Seq(CallOver(R, A))
  BY DEF AreCalls
<1> DEFINE S == CallOver(R \cup {r}, A \cup {Lost})
<1>2. CallOver(R, A) \subseteq S /\ Call(r) \in S
  BY DEF CallOver, Call
<1> HIDE DEF S
<1>3. s \in Seq(S)
  BY <1>1, <1>2, SeqMonotonic
<1>4. /\ Append(s, Call(r)) \in Seq(S)
      /\ Len(Append(s, Call(r))) = Len(s) + 1
      /\ \A i \in 1..Len(s) : Append(s, Call(r))[i] = s[i]
      /\ Append(s, Call(r))[Len(s) + 1] = Call(r)
  BY <1>2, <1>3, AppendProperties
<1>5. Len(s) \in Nat /\ DOMAIN s = 1..Len(s)
      /\ DOMAIN Append(s, Call(r)) = 1..(Len(s) + 1)
  BY <1>3, <1>4, LenProperties
<1>6. Call(r).request = r
  BY DEF Call
<1>7. RequestsOf(Append(s, Call(r))) = RequestsOf(s) \cup {r}
  BY <1>4, <1>5, <1>6 DEF RequestsOf
<1>8. CallsOf(<<r>>) = <<Call(r)>>
  BY DEF CallsOf
<1>9. s \o CallsOf(<<r>>) = Append(s, Call(r))
  BY <1>2, <1>3, <1>8, AppendIsConcat
<1>10. \A q \in R \cup {r} : TabRequest(q)
  BY <1>1
<1> QED
  BY <1>4, <1>7, <1>9, <1>10 DEF S, AreCalls

(* A call less. *)
LEMMA RemoveCall ==
  ASSUME NEW s, AreCalls(s), NEW i \in DOMAIN s
  PROVE  /\ AreCalls(RemoveAt(s, i))
         /\ \A r \in RequestsOf(s) : r # s[i].request =>
              r \in RequestsOf(RemoveAt(s, i))
         /\ Len(RemoveAt(s, i)) = Len(s) - 1
         /\ \A j \in DOMAIN RemoveAt(s, i) :
              \E k \in DOMAIN s : RemoveAt(s, i)[j] = s[k]
         /\ i = 1 => \A j \in 1..(Len(s) - 1) : RemoveAt(s, i)[j] = s[j + 1]
<1>1. PICK R, A : (\A q \in R : TabRequest(q)) /\ s \in Seq(CallOver(R, A))
  BY DEF AreCalls
<1> DEFINE S == CallOver(R, A)
           n == Len(s)
           before == SubSeq(s, 1, i - 1)
           after == SubSeq(s, i + 1, n)
<1> HIDE DEF S
<1>2. s \in Seq(S)
  BY <1>1 DEF S
<1>3. n \in Nat /\ DOMAIN s = 1..n /\ i \in 1..n
  BY <1>2, LenProperties
<1>4. /\ before \in Seq(S) /\ Len(before) = i - 1
      /\ \A j \in 1..(i - 1) : before[j] = s[j]
  BY <1>2, <1>3, SubSeqProperties
<1>5. /\ after \in Seq(S) /\ Len(after) = n - i
      /\ \A j \in 1..(n - i) : after[j] = s[i + j]
  BY <1>2, <1>3, SubSeqProperties
<1>6. RemoveAt(s, i) = before \o after
  BY DEF RemoveAt
<1> HIDE DEF before, after
<1>7. /\ before \o after \in Seq(S) /\ Len(before \o after) = n - 1
      /\ \A j \in 1..(n - 1) : (before \o after)[j] =
           IF j <= i - 1 THEN before[j] ELSE after[j - (i - 1)]
  <2>1. /\ before \o after \in Seq(S)
        /\ Len(before \o after) = Len(before) + Len(after)
        /\ \A j \in 1..(Len(before) + Len(after)) : (before \o after)[j] =
             IF j <= Len(before) THEN before[j] ELSE after[j - Len(before)]
    BY <1>4, <1>5, ConcatProperties
  <2>2. Len(before) + Len(after) = n - 1
    BY <1>3, <1>4, <1>5
  <2> QED
    BY <1>4, <2>1, <2>2
<1>8. DOMAIN (before \o after) = 1..(n - 1)
  BY <1>3, <1>7, LenProperties
<1>9. ASSUME NEW j \in DOMAIN s, j # i
      PROVE  \E k \in 1..(n - 1) : (before \o after)[k] = s[j]
  <2>1. CASE j < i
    <3>1. j \in 1..(n - 1) /\ j \in 1..(i - 1) /\ j <= i - 1
      BY <1>3, <2>1
    <3>2. (before \o after)[j] = s[j]
      BY <1>4, <1>7, <3>1
    <3> QED
      BY <3>1, <3>2
  <2>2. CASE j > i
    <3>1. j - 1 \in 1..(n - 1) /\ ~ (j - 1 <= i - 1) /\ j - 1 - (i - 1) = j - i
          /\ j - i \in 1..(n - i) /\ i + (j - i) = j
      BY <1>3, <1>9, <2>2
    <3>2. (before \o after)[j - 1] = s[j]
      BY <1>5, <1>7, <3>1
    <3> QED
      BY <3>1, <3>2
  <2>3. j < i \/ j > i
    BY <1>3, <1>9
  <2> QED
    BY <2>1, <2>2, <2>3
<1>10. \A r \in RequestsOf(s) : r # s[i].request =>
         r \in RequestsOf(before \o after)
  BY <1>8, <1>9 DEF RequestsOf
<1>11. ASSUME NEW j \in 1..(n - 1)
       PROVE  /\ \E k \in DOMAIN s : (before \o after)[j] = s[k]
              /\ i = 1 => (before \o after)[j] = s[j + 1]
  <2>1. CASE j <= i - 1
    <3>1. j \in 1..(i - 1) /\ i # 1
      BY <1>3, <2>1
    <3>2. (before \o after)[j] = s[j] /\ j \in DOMAIN s
      BY <1>3, <1>4, <1>7, <2>1, <3>1
    <3> QED
      BY <3>1, <3>2
  <2>2. CASE ~ (j <= i - 1)
    <3>1. j - (i - 1) \in 1..(n - i) /\ i + (j - (i - 1)) = j + 1
      BY <1>3, <2>2
    <3>2. (before \o after)[j] = s[j + 1] /\ j + 1 \in DOMAIN s
      BY <1>3, <1>5, <1>7, <2>2, <3>1
    <3> QED
      BY <3>2
  <2> QED
    BY <2>1, <2>2
<1>12. AreCalls(before \o after)
  BY <1>1, <1>7 DEF S, AreCalls
<1> QED
  BY <1>6, <1>7, <1>8, <1>10, <1>11, <1>12
-------------------------------------------------------------------------------
(* The steps. *)

LEMMA TabInitGood == FrontendAssumption /\ TabInit => TabInv
<1> SUFFICES ASSUME TabInit
             PROVE  TabInv
  OBVIOUS
<1>1. Home \in Route
  BY DEF Home, Route
<1>2. page = [route |-> Home, state |-> "loading"]
  BY DEF TabInit, Loading
<1>3. PICK r : RequestOf(Home) = <<r>> /\ TabRequest(r)
  BY <1>1, RequestOfRoute
<1>4. calls = <<Call(r)>>
  BY <1>3 DEF TabInit, CallsOf
<1>5. Call(r) \in CallOver({r}, {Lost}) /\ Call(r).request = r
  BY DEF Call, CallOver
<1>6. calls \in Seq(CallOver({r}, {Lost}))
  BY <1>4, <1>5
<1>7. RequestsInv
  BY <1>3, <1>6 DEF RequestsInv, AreCalls
<1>8. PageInv
  BY <1>1, <1>2 DEF PageInv
<1>9. LoadingIsAwaited
  <2>1. 1 \in DOMAIN calls /\ calls[1].request = r
    BY <1>4, <1>5
  <2>2. page.route = Home
    BY <1>2
  <2> QED
    BY <1>3, <2>1, <2>2 DEF LoadingIsAwaited
<1> QED
  BY <1>7, <1>8, <1>9 DEF TabInv

(* What the server does keeps the requests, in their order. *)
LEMMA ServerStep ==
  ASSUME RequestsInv,
         \/ UNCHANGED calls
         \/ Crash
         \/ \E i \in DOMAIN calls : Proceed(i) \/ \E answer : Reply(i, answer)
  PROVE  /\ RequestsInv'
         /\ RequestsOf(calls') = RequestsOf(calls)
<1>1. PICK R, A : (\A r \in R : TabRequest(r)) /\ calls \in Seq(CallOver(R, A))
  BY DEF RequestsInv, AreCalls
<1>2. /\ Len(calls) \in Nat /\ DOMAIN calls = 1..Len(calls)
      /\ \A i \in 1..Len(calls) : calls[i] \in CallOver(R, A)
  BY <1>1, LenProperties, ElementOfSeq
<1>3. ASSUME NEW More, NEW After, After \in [1..Len(calls) -> CallOver(R, A \cup More)],
             \A i \in 1..Len(calls) : After[i].request = calls[i].request,
             calls' = After
      PROVE  RequestsInv' /\ RequestsOf(calls') = RequestsOf(calls)
  <2>1. calls' \in Seq(CallOver(R, A \cup More))
    BY <1>2, <1>3, SeqDef
  <2>2. RequestsInv'
    BY <1>1, <2>1 DEF RequestsInv, AreCalls
  <2>3. DOMAIN calls' = DOMAIN calls
    BY <1>2, <1>3
  <2> QED
    BY <1>2, <1>3, <2>2, <2>3 DEF RequestsOf
<1>4. CASE UNCHANGED calls
  BY <1>4 DEF RequestsInv, RequestsOf
<1>5. CASE Crash
  <2> DEFINE After == [i \in 1..Len(calls) |->
                         IF calls[i].phase = "answered" THEN calls[i]
                         ELSE [calls[i] EXCEPT !.phase = "answered", !.answer = Lost]]
  <2>1. calls' = After
    BY <1>2, <1>5 DEF Crash
  <2>2. \A i \in 1..Len(calls) :
          /\ After[i] \in CallOver(R, A \cup {Lost})
          /\ After[i].request = calls[i].request
    BY <1>2 DEF CallOver
  <2>3. After \in [1..Len(calls) -> CallOver(R, A \cup {Lost})]
    BY <2>2
  <2> HIDE DEF After
  <2> QED
    BY <1>3, <2>1, <2>2, <2>3
<1>6. ASSUME NEW i \in DOMAIN calls, NEW answer, Reply(i, answer)
      PROVE  RequestsInv' /\ RequestsOf(calls') = RequestsOf(calls)
  <2> DEFINE done == [calls[i] EXCEPT !.phase = "answered", !.answer = answer]
             After == [calls EXCEPT ![i] = done]
  <2>1. calls' = After
    BY <1>2, <1>6 DEF Reply, CallOver
  <2>2. done \in CallOver(R, A \cup {answer}) /\ done.request = calls[i].request
    BY <1>2 DEF CallOver
  <2>3. \A j \in 1..Len(calls) : calls[j] \in CallOver(R, A \cup {answer})
    BY <1>2 DEF CallOver
  <2> HIDE DEF done
  <2>4. /\ After \in [1..Len(calls) -> CallOver(R, A \cup {answer})]
        /\ \A j \in 1..Len(calls) : After[j].request = calls[j].request
    BY <1>1, <1>2, <2>2, <2>3
  <2> HIDE DEF After
  <2> QED
    BY <1>3, <2>1, <2>4
<1>7. ASSUME NEW i \in DOMAIN calls, Proceed(i)
      PROVE  RequestsInv' /\ RequestsOf(calls') = RequestsOf(calls)
  <2> DEFINE done == [calls[i] EXCEPT !.phase = "checked"]
             After == [calls EXCEPT ![i] = done]
  <2>1. calls' = After
    BY <1>7 DEF Proceed
  <2>2. done \in CallOver(R, A \cup {}) /\ done.request = calls[i].request
    BY <1>2 DEF CallOver
  <2> HIDE DEF done
  <2>3. /\ After \in [1..Len(calls) -> CallOver(R, A \cup {})]
        /\ \A j \in 1..Len(calls) : After[j].request = calls[j].request
    BY <1>1, <1>2, <2>2
  <2> HIDE DEF After
  <2> QED
    BY <1>3, <2>1, <2>3
<1> QED
  BY <1>4, <1>5, <1>6, <1>7

LEMMA BackendGood == TabInv /\ Backend /\ UNCHANGED tab => TabInv'
<1> SUFFICES ASSUME TabInv, Backend, UNCHANGED tab
             PROVE  TabInv'
  OBVIOUS
<1>1. \/ UNCHANGED calls
      \/ Crash
      \/ \E i \in DOMAIN calls : Proceed(i) \/ \E answer : Reply(i, answer)
  <2>1. CASE DiskChanges
    <3>1. \E path, directories : Change(path, directories)
      BY <2>1 DEF DiskChanges, RemoveVideo, PutVideo, PutNfo, MakeDirectory,
         RemoveDirectory
    <3> QED
      BY <3>1 DEF Change
  <2>2. CASE \E i \in DOMAIN calls : Handle(i)
    BY <2>2 DEF Handle, Refuse, EnsureDirectoryExists, Browse, Item, Libraries, Search,
       FindPicked, SetMainTitle, DbFails
  <2> QED
    BY <2>1, <2>2 DEF Backend, Start, Reads, OpenDirectory, StatEntry, BuildRecord,
       Reading, ForgetTree, WriteDirectory
<1>2. RequestsInv' /\ RequestsOf(calls') = RequestsOf(calls)
  BY <1>1, ServerStep DEF TabInv
<1>3. page' = page
  BY DEF tab
<1>4. PageInv'
  BY <1>3 DEF TabInv, PageInv
<1>5. LoadingIsAwaited'
  BY <1>2, <1>3 DEF TabInv, LoadingIsAwaited, RequestsOf
<1> QED
  BY <1>2, <1>4, <1>5 DEF TabInv

LEMMA NavigateGood ==
  ASSUME TabInv, NEW route \in Route, Navigate(route)
  PROVE  TabInv'
<1>1. CASE SameDirectory(route)
  <2>1. UNCHANGED calls /\ page' = updateParams(page, route.number)
    BY <1>1 DEF Navigate, UrlChanged
  <2>2. CASE page.state = "loading"
    <3>1. PICK old \in Route : page = [route |-> old, state |-> "loading"]
      BY <2>2 DEF TabInv, PageInv
    <3>2. /\ old \in [page : {"browse"}, library : LibraryName, dir : Directory,
                      number : Nat]
          /\ route.number \in Nat
      BY <1>1, <3>1 DEF SameDirectory, Route
    <3> DEFINE new == [old EXCEPT !.number = route.number]
    <3>3. /\ new \in Route /\ new.page = "browse" /\ old.page = "browse"
          /\ new.library = old.library /\ new.dir = old.dir
      BY <3>2 DEF Route
    <3>4. page' = [route |-> new, state |-> "loading"]
      BY <2>1, <2>2, <3>1 DEF updateParams
    <3>5. RequestOf(new) = RequestOf(old)
      BY <3>3 DEF RequestOf
    <3> HIDE DEF new
    <3>6. PageInv'
      BY <3>3, <3>4 DEF PageInv
    <3>7. LoadingIsAwaited'
      BY <2>1, <3>1, <3>4, <3>5 DEF TabInv, LoadingIsAwaited
    <3> QED
      BY <2>1, <3>6, <3>7 DEF TabInv, RequestsInv
  <2>3. CASE page.state = "loaded"
    <3>1. PICK listing, number : page = LoadedListing(listing, number)
      BY <1>1, <2>3 DEF TabInv, PageInv, SameDirectory
    <3>2. page' = LoadedListing(listing, route.number)
      BY <2>1, <3>1 DEF updateParams, LoadedListing
    <3>3. PageInv' /\ LoadingIsAwaited'
      BY <3>2 DEF PageInv, LoadingIsAwaited, LoadedListing
    <3> QED
      BY <2>1, <3>3 DEF TabInv, RequestsInv
  <2>4. CASE page.state = "failed"
    <3>1. page' = page
      BY <2>1, <2>4 DEF updateParams
    <3> QED
      BY <2>1, <3>1 DEF TabInv, RequestsInv, PageInv, LoadingIsAwaited
  <2> QED
    BY <2>2, <2>3, <2>4 DEF TabInv, PageInv
<1>2. CASE ~ SameDirectory(route)
  <2>1. PICK r : RequestOf(route) = <<r>> /\ TabRequest(r)
    BY RequestOfRoute
  <2>2. page' = Loading(route) /\ calls' = calls \o CallsOf(<<r>>)
    BY <1>2, <2>1 DEF Navigate, UrlChanged
  <2>3. RequestsInv' /\ r \in RequestsOf(calls')
    <3>1. AreCalls(calls)
      BY DEF TabInv, RequestsInv
    <3>2. calls' = Append(calls, Call(r))
      BY <2>1, <2>2, <3>1, AppendCall
    <3> QED
      BY <2>1, <3>1, <3>2, AppendCall DEF RequestsInv
  <2>4. PageInv' /\ page'.route = route
    BY <2>2 DEF PageInv, Loading
  <2>5. LoadingIsAwaited'
    BY <2>1, <2>3, <2>4 DEF LoadingIsAwaited, RequestsOf
  <2> QED
    BY <2>3, <2>4, <2>5 DEF TabInv
<1> QED
  BY <1>1, <1>2

LEMMA GoToPageGood ==
  ASSUME TabInv, NEW number, GoToPage(number)
  PROVE  TabInv'
<1>1. PICK listing, old : page = LoadedListing(listing, old)
  BY DEF TabInv, PageInv, GoToPage
<1>2. page' = LoadedListing(listing, number) /\ UNCHANGED calls
  BY <1>1 DEF GoToPage, LoadedListing
<1>3. PageInv' /\ LoadingIsAwaited'
  BY <1>2 DEF PageInv, LoadingIsAwaited, LoadedListing
<1> QED
  BY <1>2, <1>3 DEF TabInv, RequestsInv

LEMMA PickMainGood ==
  ASSUME TabInv, NEW entry, NEW row, PickMain(entry, row)
  PROVE  TabInv'
<1> DEFINE r == [op |-> "set_main", library |-> <<page.listing.library>>,
                 disc_set |-> entry.disc_set, path |-> PathOf(row)]
<1>1. page' = page /\ page.state = "loaded" /\ calls' = Append(calls, Call(r))
  BY DEF PickMain
<1>2. TabRequest(r)
  BY DEF TabRequest
<1> HIDE DEF r
<1>3. RequestsInv'
  BY <1>1, <1>2, AppendCall DEF TabInv, RequestsInv
<1> QED
  BY <1>1, <1>3 DEF TabInv, PageInv, LoadingIsAwaited

(* The answer a loading page waits for ends its loading, and no other answer
   takes that one's request away. *)
LEMMA DeliverGood ==
  ASSUME TabInv, NEW i \in DOMAIN calls, Deliver(i)
  PROVE  TabInv'
<1> DEFINE op == calls[i].request.op
           answer == calls[i].answer
           rest == RemoveAt(calls, i)
<1>1. AreCalls(calls) /\ PageInv /\ LoadingIsAwaited
  BY DEF TabInv, RequestsInv
<1>2. op \in Op
  <2>1. PICK R, A : (\A r \in R : TabRequest(r)) /\ calls \in Seq(CallOver(R, A))
    BY <1>1 DEF AreCalls
  <2>2. calls[i] \in CallOver(R, A)
    BY <2>1, ElementOfSeq
  <2> QED
    BY <2>1, <2>2, RequestOp DEF CallOver
<1>3. /\ AreCalls(rest)
      /\ \A r \in RequestsOf(calls) : r # calls[i].request => r \in RequestsOf(rest)
  BY <1>1, RemoveCall
<1>4. CASE op = "set_main"
  <2>1. page' = page /\ calls' = rest \o CallsOf(Refetch(answer))
    BY <1>4 DEF Deliver
  <2>2. CASE Refetch(answer) = <<>>
    <3>1. calls' = rest
      <4>1. CallsOf(<<>>) = <<>>
        BY DEF CallsOf
      <4>2. PICK R, A : rest \in Seq(CallOver(R, A))
        BY <1>3 DEF AreCalls
      <4> QED
        BY <2>1, <2>2, <4>1, <4>2, ConcatEmptySeq
    <3>2. LoadingIsAwaited'
      <4> SUFFICES ASSUME page.state = "loading"
                   PROVE  \E r \in RequestsOf(rest) : <<r>> = RequestOf(page.route)
        BY <2>1, <3>1 DEF LoadingIsAwaited, RequestsOf
      <4>1. PICK r \in RequestsOf(calls) : <<r>> = RequestOf(page.route)
        BY <1>1, AwaitedRequest
      <4>2. page.route \in Route
        BY <1>1 DEF PageInv
      <4>3. r.op # "set_main"
        BY <4>1, <4>2, RequestOfRoute
      <4> QED
        BY <1>3, <1>4, <4>1, <4>3
    <3> QED
      BY <1>1, <1>3, <2>1, <3>1, <3>2 DEF TabInv, RequestsInv, PageInv
  <2>3. CASE Refetch(answer) # <<>>
    <3> DEFINE r == BrowseRequest(page.listing.library, page.listing.path)
    <3>1. page.state = "loaded" /\ Refetch(answer) = <<r>>
      BY <2>3 DEF Refetch
    <3>2. TabRequest(r)
      BY DEF TabRequest
    <3> HIDE DEF r
    <3>3. AreCalls(calls')
      <4> HIDE DEF rest, answer
      <4>1. calls' = rest \o CallsOf(<<r>>)
        BY <2>1, <3>1
      <4>2. rest \o CallsOf(<<r>>) = Append(rest, Call(r))
        BY <1>3, <3>2, AppendCall
      <4>3. AreCalls(Append(rest, Call(r)))
        BY <1>3, <3>2, AppendCall
      <4> QED
        BY <4>1, <4>2, <4>3
    <3> QED
      BY <1>1, <2>1, <3>1, <3>3 DEF TabInv, RequestsInv, PageInv, LoadingIsAwaited
  <2> QED
    BY <2>2, <2>3
<1>5. CASE op # "set_main"
  <2>1. /\ calls' = rest
        /\ page' = CASE op = "browse"    -> GotListing(answer)
                     [] op = "item"      -> GotItem(answer)
                     [] op = "search"    -> GotResults(answer, "search")
                     [] op = "libraries" -> GotResults(answer, "home")
                     [] op = "set_main"  -> page
    BY <1>5 DEF Deliver
  <2> HIDE DEF rest, answer
  <2>2. /\ op = "browse" => page' = GotListing(answer)
        /\ op = "item" => page' = GotItem(answer)
        /\ op = "search" => page' = GotResults(answer, "search")
        /\ op = "libraries" => page' = GotResults(answer, "home")
    BY <2>1
  <2> HIDE DEF op
  <2>3. /\ PageInv'
        /\ page'.state = "loading" =>
             /\ page' = page
             /\ page.route.page #
                  CASE op = "browse" -> "browse" [] op = "item" -> "player"
                    [] op = "search" -> "search" [] op = "libraries" -> "home"
    <3>1. CASE op = "browse"
      <4>1. \/ page' = page /\ page.route.page # "browse"
            \/ page' = Failed([page |-> "browse"])
            \/ page' = LoadedListing(answer.body, page.route.number)
            \/ page' = [page EXCEPT !.listing = answer.body]
                 /\ page.state = "loaded" /\ page.route.page = "browse"
            \/ page' = page /\ page.state = "failed"
        BY <1>1, <2>2, <3>1 DEF GotListing, PageInv
      <4>2. CASE page' = [page EXCEPT !.listing = answer.body]
                   /\ page.state = "loaded" /\ page.route.page = "browse"
        <5>1. PICK listing, number : page = LoadedListing(listing, number)
          BY <1>1, <4>2 DEF PageInv
        <5>2. page' = LoadedListing(answer.body, number)
          BY <4>2, <5>1 DEF LoadedListing
        <5> QED
          BY <5>2 DEF PageInv, LoadedListing
      <4>3. CASE page' = page
        BY <1>1, <3>1, <4>1, <4>3 DEF PageInv, Failed, LoadedListing
      <4>4. CASE page' = Failed([page |-> "browse"])
        BY <4>4 DEF PageInv, Failed
      <4>5. CASE page' = LoadedListing(answer.body, page.route.number)
        BY <4>5 DEF PageInv, LoadedListing
      <4> QED
        BY <4>1, <4>2, <4>3, <4>4, <4>5
    <3>2. CASE op = "item"
      BY <1>1, <2>2, <3>2 DEF GotItem, PageInv, LoadedItem
    <3>3. CASE op = "search"
      BY <1>1, <2>2, <3>3 DEF GotResults, PageInv, Failed, LoadedResults
    <3>4. CASE op = "libraries"
      BY <1>1, <2>2, <3>4 DEF GotResults, PageInv, Failed, LoadedResults
    <3> QED
      BY <1>2, <1>5, <3>1, <3>2, <3>3, <3>4 DEF Op
  <2>4. LoadingIsAwaited'
    <3> SUFFICES ASSUME page'.state = "loading"
                 PROVE  \E r \in RequestsOf(rest) : <<r>> = RequestOf(page'.route)
      BY <2>1 DEF LoadingIsAwaited, RequestsOf
    <3>1. page' = page
      BY <2>3
    <3>2. PICK r \in RequestsOf(calls) : <<r>> = RequestOf(page.route)
      BY <1>1, <3>1, AwaitedRequest
    <3>3. page.route \in Route
      BY <1>1, <3>1 DEF PageInv
    <3>4. r.op # op
      BY <1>2, <1>5, <2>3, <3>2, <3>3, RequestOfRoute DEF Op
    <3>5. r \in RequestsOf(rest)
      BY <1>3, <3>2, <3>4 DEF op, rest
    <3> QED
      BY <3>1, <3>2, <3>5
  <2> QED
    BY <1>3, <2>1, <2>3, <2>4 DEF TabInv, RequestsInv, rest
<1> QED
  BY <1>4, <1>5

LEMMA TabStep == TabInv /\ [TabNext]_<<vars, tab>> => TabInv'
<1> SUFFICES ASSUME TabInv, [TabNext]_<<vars, tab>>
             PROVE  TabInv'
  OBVIOUS
<1>1. CASE Backend /\ UNCHANGED tab
  BY <1>1, BackendGood
<1>2. CASE \E route \in Routes : Navigate(route)
  BY <1>2, NavigateGood, FrontendAssumption
<1>3. CASE \E route \in Routes : route.page = "browse" /\ GoToPage(route.number)
  BY <1>3, GoToPageGood
<1>4. CASE \E entry, row : PickMain(entry, row)
  BY <1>4, PickMainGood
<1>5. CASE \E i \in DOMAIN calls : Deliver(i)
  BY <1>5, DeliverGood
<1>6. CASE UNCHANGED <<vars, tab>>
  BY <1>6 DEF vars, tab, TabInv, RequestsInv, PageInv, LoadingIsAwaited
<1> QED
  BY <1>1, <1>2, <1>3, <1>4, <1>5, <1>6 DEF TabNext

(* A page that says it is loading has its own request under way, in whatever
   order answers come, are lost or meet another page. *)
THEOREM NothingIsAwaitedInVain == TabSpec => []LoadingIsAwaited
<1>1. TabInit => TabInv
  BY TabInitGood, FrontendAssumption
<1>2. TabInv /\ [TabNext]_<<vars, tab>> => TabInv'
  BY TabStep
<1>3. TabInv => LoadingIsAwaited
  BY DEF TabInv
<1> QED
  BY <1>1, <1>2, <1>3, PTL DEF TabSpec
-------------------------------------------------------------------------------
(* The tab that waits for its answers.  An answer is of what was asked, and a
   request that passed its first step still has a library to be answered from. *)
AnswersItsRequest(c) ==
  c.phase = "answered" /\ Ok(c.answer) =>
    /\ c.request.op = "browse" => /\ c.answer.body.library = c.request.library[1]
                                  /\ c.answer.body.path = c.request.dir
    /\ c.request.op = "item" => /\ c.answer.body.library = c.request.library[1]
                                /\ c.answer.body.path = c.request.path

HasItsLibrary(c) ==
  c.phase = "checked" =>
    /\ libraries # <<>>
    /\ c.request.op = "browse" => LibraryAsked(c.request) # <<>>
    /\ c.request.op = "set_main" => c.request.library[1] \in LibraryName

AnswersInv ==
  \A i \in DOMAIN calls : AnswersItsRequest(calls[i]) /\ HasItsLibrary(calls[i])

(* What is loaded is what the URL names, and nothing else is under way than
   picks and their refetches. *)
LoadedOf(route) ==
  CASE route.page = "browse" ->
         /\ page.listing.library = route.library
         /\ page.listing.path = route.dir
         /\ page.number = route.number
         /\ \A i \in DOMAIN calls :
              \/ calls[i].request.op = "set_main"
              \/ calls[i].request = BrowseRequest(route.library, route.dir)
    [] route.page = "player" -> /\ page.item.library = route.library
                                /\ page.item.path = route.path
                                /\ Len(calls) = 0
    [] OTHER -> page.route = route /\ Len(calls) = 0

OrderlyInv ==
  /\ page.route.page = url.page
  /\ orderly =>
       \/ /\ page = Loading(url)
          /\ Len(calls) = 1
          /\ RequestOf(url) = << calls[1].request >>
       \/ /\ page.state = "loaded"
          /\ LoadedOf(url)

(* The star is on the pick, unless a pick or the refetch after it is under way. *)
StarInv ==
  orderly /\ url.page = "browse" =>
    \/ \E i \in DOMAIN calls : calls[i].request.op = "set_main"
    \/ Len(calls) = 0 /\ StarsThePick(overrides, page.listing)
    \/ /\ Len(calls) # 0
       /\ LET last == calls[Len(calls)]
          IN  last.phase = "answered" /\ Ok(last.answer) =>
                StarsThePick(overrides, last.answer.body)

(* The bounds, and the shapes of what only the tab counts. *)
BoundsInv ==
  /\ Len(calls) <= MaxCalls
  /\ visits \in 0..MaxVisits
  /\ picks \in 0..MaxPicks
  /\ orderly \in BOOLEAN
  /\ url.page \in {"home", "browse", "player", "search"}

QuietInv ==
  /\ TabInv
  /\ TableInv
  /\ KeptInv
  /\ AnswersInv
  /\ OrderlyInv
  /\ StarInv
  /\ BoundsInv

LEMMA CallsShape ==
  ASSUME NEW s, AreCalls(s)
  PROVE  /\ Len(s) \in Nat /\ DOMAIN s = 1..Len(s)
         /\ s = <<>> <=> Len(s) = 0
         /\ \A i \in DOMAIN s :
              /\ s[i] = [request |-> s[i].request, phase |-> s[i].phase,
                         answer |-> s[i].answer]
              /\ TabRequest(s[i].request)
              /\ s[i].phase \in {"sent", "checked", "answered"}
<1>1. PICK R, A : (\A r \in R : TabRequest(r)) /\ s \in Seq(CallOver(R, A))
  BY DEF AreCalls
<1>2. Len(s) \in Nat /\ DOMAIN s = 1..Len(s) /\ (s = <<>> <=> Len(s) = 0)
  BY <1>1, LenProperties, EmptySeq
<1>3. \A i \in 1..Len(s) : s[i] \in CallOver(R, A)
  BY <1>1, ElementOfSeq
<1> QED
  BY <1>1, <1>2, <1>3 DEF CallOver

(* Browsing, a page of its listing has one request: that listing's. *)
LEMMA BrowseOnly ==
  ASSUME OrderlyInv, orderly, url.page = "browse", NEW i \in DOMAIN calls,
         RequestsInv
  PROVE  \/ calls[i].request.op = "set_main"
         \/ calls[i].request = BrowseRequest(url.library, url.dir)
<1>1. DOMAIN calls = 1..Len(calls)
  BY CallsShape DEF RequestsInv
<1>2. RequestOf(url) = << BrowseRequest(url.library, url.dir) >>
  BY DEF RequestOf
<1>3. CASE Len(calls) = 1 /\ RequestOf(url) = << calls[1].request >>
  BY <1>1, <1>2, <1>3
<1>4. CASE LoadedOf(url)
  BY <1>4 DEF LoadedOf
<1> QED
  BY <1>3, <1>4 DEF OrderlyInv

LEMMA SameRange ==
  ASSUME NEW m \in Nat, NEW n \in Nat, 1..m = 1..n
  PROVE  m = n
<1>1. /\ m # 0 => m \in 1..n
      /\ n # 0 => n \in 1..m
  OBVIOUS
<1> QED
  BY <1>1

(* The server's steps. *)
LEMMA LibraryAskedName ==
  ASSUME NEW request, NEW name, request.library = <<name>>,
         LibraryAsked(request) # <<>>
  PROVE  LibraryAsked(request)[1].name = name
<1> DEFINE first == {i \in DOMAIN libraries :
                       /\ libraries[i].name = name
                       /\ \A j \in 1..(i - 1) : libraries[j].name # name}
           found == CHOOSE i \in first : TRUE
<1>1. LibraryAsked(request) = IF first = {} THEN <<>> ELSE << libraries[found] >>
  BY DEF LibraryAsked, LibraryNamed
<1>2. first # {} => libraries[found].name = name
  BY DEF first
<1> HIDE DEF first, found
<1> QED
  BY <1>1, <1>2

LEMMA ReplyCall ==
  ASSUME AreCalls(calls), NEW i \in DOMAIN calls, NEW answer, Reply(i, answer)
  PROVE  calls' = [calls EXCEPT ![i] = [request |-> calls[i].request,
                                        phase |-> "answered", answer |-> answer]]
<1>1. PICK R, A : calls \in Seq(CallOver(R, A))
  BY DEF AreCalls
<1>2. calls[i] \in CallOver(R, A) /\ i \in 1..Len(calls)
  BY <1>1, ElementOfSeq
<1>3. calls' = [calls EXCEPT ![i] = [calls[i] EXCEPT !.phase = "answered",
                                                     !.answer = answer]]
  BY <1>1, <1>2 DEF Reply, CallOver
<1>4. [calls[i] EXCEPT !.phase = "answered", !.answer = answer]
        = [request |-> calls[i].request, phase |-> "answered", answer |-> answer]
  <2> DEFINE done == [calls[i] EXCEPT !.phase = "answered", !.answer = answer]
  <2>1. /\ done \in CallOver(R, A \cup {answer})
        /\ done.request = calls[i].request
        /\ done.phase = "answered"
        /\ done.answer = answer
    BY <1>2 DEF CallOver
  <2> HIDE DEF done
  <2>2. done = [request |-> calls[i].request, phase |-> "answered", answer |-> answer]
    BY <2>1 DEF CallOver
  <2> QED
    BY <2>2 DEF done
<1> QED
  BY <1>3, <1>4

LEMMA ProceedCall ==
  ASSUME AreCalls(calls), NEW i \in DOMAIN calls, Proceed(i)
  PROVE  calls' = [calls EXCEPT ![i] = [request |-> calls[i].request,
                                        phase |-> "checked", answer |-> calls[i].answer]]
<1>1. PICK R, A : calls \in Seq(CallOver(R, A))
  BY DEF AreCalls
<1>2. calls[i] \in CallOver(R, A)
  BY <1>1, ElementOfSeq
<1>3. calls' = [calls EXCEPT ![i] = [calls[i] EXCEPT !.phase = "checked"]]
  BY DEF Proceed
<1>4. [calls[i] EXCEPT !.phase = "checked"]
        = [request |-> calls[i].request, phase |-> "checked", answer |-> calls[i].answer]
  BY <1>2 DEF CallOver
<1> QED
  BY <1>3, <1>4

(* What a call becomes when the server takes a step for it. *)
GoodAnswer(c) ==
  /\ AnswersItsRequest(c)
  /\ HasItsLibrary(c)
  /\ c.request.op = "browse" /\ c.phase = "answered" /\ Ok(c.answer) =>
       StarsThePick(overrides, c.answer.body)

LEMMA HandleCall ==
  ASSUME RequestsInv, AnswersInv, KeysInv, NamesInv, NEW i \in DOMAIN calls, Handle(i)
  PROVE  /\ UNCHANGED libraries
         /\ calls[i].request.op = "set_main" \/ UNCHANGED overrides
         /\ \E c : /\ calls' = [calls EXCEPT ![i] = c]
                   /\ c.request = calls[i].request
                   /\ GoodAnswer(c)
<1> DEFINE request == calls[i].request
           Replied(answer) == [request |-> request, phase |-> "answered",
                               answer |-> answer]
<1>1. /\ calls[i] = [request |-> request, phase |-> calls[i].phase,
                     answer |-> calls[i].answer]
      /\ TabRequest(request)
  BY CallsShape DEF RequestsInv
<1>2. UNCHANGED libraries /\ (request.op = "set_main" \/ UNCHANGED overrides)
  BY DEF Handle, Refuse, EnsureDirectoryExists, Browse, Item, Libraries, Search,
     FindPicked, SetMainTitle, Asked, Checked, tables
<1>3. ASSUME NEW answer, Reply(i, answer)
      PROVE  calls' = [calls EXCEPT ![i] = Replied(answer)]
  BY <1>3, ReplyCall DEF RequestsInv
<1>4. ASSUME NEW answer, Reply(i, answer),
             ~ Ok(answer) \/ request.op \in {"search", "libraries", "set_main"}
      PROVE  \E c : /\ calls' = [calls EXCEPT ![i] = c]
                    /\ c.request = request
                    /\ GoodAnswer(c)
  <2>1. calls' = [calls EXCEPT ![i] = Replied(answer)]
    BY <1>3, <1>4
  <2>2. GoodAnswer(Replied(answer))
    BY <1>4 DEF GoodAnswer, AnswersItsRequest, HasItsLibrary
  <2> QED
    BY <2>1, <2>2
<1>5. ~ Ok(Lost) /\ ~ Ok(Answer(404, NoBody)) /\ ~ Ok(Answer(500, NoBody))
      /\ ~ Ok(Answer(400, NoBody))
  BY DEF Ok, Lost, Answer
<1>6. ASSUME Proceed(i), libraries # <<>>,
             request.op = "browse" => LibraryAsked(request) # <<>>,
             request.op = "set_main" => request.library[1] \in LibraryName
      PROVE  \E c : /\ calls' = [calls EXCEPT ![i] = c]
                    /\ c.request = request
                    /\ GoodAnswer(c)
  <2> DEFINE c == [request |-> request, phase |-> "checked",
                   answer |-> calls[i].answer]
  <2>1. calls' = [calls EXCEPT ![i] = c]
    BY <1>6, ProceedCall DEF RequestsInv
  <2>2. GoodAnswer(c)
    BY <1>6 DEF GoodAnswer, AnswersItsRequest, HasItsLibrary
  <2> QED
    BY <2>1, <2>2
<1>7. CASE Refuse(i)
  BY <1>2, <1>4, <1>5, <1>7 DEF Refuse
<1>8. CASE EnsureDirectoryExists(i)
  BY <1>2, <1>4, <1>5, <1>6, <1>8 DEF EnsureDirectoryExists, Asked
<1>9. CASE Browse(i)
  <2>1. request.op = "browse" /\ calls[i].phase = "checked"
    BY <1>9 DEF Browse, Checked
  <2>2. CASE DbFails(i)
    BY <1>2, <1>4, <1>5, <2>2 DEF DbFails
  <2> DEFINE library == LibraryAsked(request)[1]
             listing == DirListing(library, request.dir)
  <2>3. CASE Reply(i, Answer(200, listing))
    <3>1. PICK name, dir : request = BrowseRequest(name, dir)
      BY <1>1, <2>1 DEF TabRequest, ItemRequest
    <3>2. request.library = <<name>>
      BY <3>1 DEF BrowseRequest
    <3>3. LibraryAsked(request) # <<>>
      BY <2>1 DEF AnswersInv, HasItsLibrary
    <3> HIDE DEF request
    <3>4. library.name = name
      BY <3>2, <3>3, LibraryAskedName
    <3>5. listing.library = library.name /\ listing.path = request.dir
      BY DEF DirListing
    <3>6. StarsThePick(overrides, listing)
      BY ListingStarsThePick
    <3> HIDE DEF library, listing
    <3> DEFINE c == Replied(Answer(200, listing))
    <3>7. c.request = request /\ c.phase = "answered" /\ c.answer.body = listing
      BY DEF Answer
    <3>8. request.library[1] = name
      BY <3>2
    <3> HIDE DEF c
    <3>9. GoodAnswer(c)
      BY <2>1, <3>4, <3>5, <3>6, <3>7, <3>8
         DEF GoodAnswer, AnswersItsRequest, HasItsLibrary, request
    <3>10. calls' = [calls EXCEPT ![i] = c]
      BY <1>3, <2>3 DEF c, request
    <3> QED
      BY <1>2, <3>7, <3>9, <3>10 DEF request
  <2> QED
    BY <1>9, <2>2, <2>3 DEF Browse
<1>10. CASE Item(i)
  <2>1. request.op = "item"
    BY <1>10 DEF Item, Asked
  <2>2. CASE \/ DbFails(i)
             \/ Reply(i, Answer(404, NoBody))
    BY <1>2, <1>4, <1>5, <2>2 DEF DbFails
  <2>3. ASSUME NEW r \in RowAt(request.library[1], request.path),
               Reply(i, Answer(200, [library |-> r.lib, path |-> PathOf(r)]))
        PROVE  \E c : /\ calls' = [calls EXCEPT ![i] = c]
                      /\ c.request = request
                      /\ GoodAnswer(c)
    <3> DEFINE c == Replied(Answer(200, [library |-> r.lib, path |-> PathOf(r)]))
    <3>1. r.lib = request.library[1] /\ PathOf(r) = request.path
      BY DEF RowAt
    <3>2. /\ c.request = request /\ c.phase = "answered"
          /\ c.answer.body.library = r.lib /\ c.answer.body.path = PathOf(r)
      BY DEF Answer
    <3>3. calls' = [calls EXCEPT ![i] = c]
      BY <1>3, <2>3
    <3> HIDE DEF c
    <3>4. GoodAnswer(c)
      BY <2>1, <3>1, <3>2 DEF GoodAnswer, AnswersItsRequest, HasItsLibrary
    <3> QED
      BY <3>2, <3>3, <3>4
  <2> QED
    BY <1>2, <1>10, <2>2, <2>3 DEF Item
<1>11. CASE Libraries(i) \/ Search(i)
  <2>1. request.op \in {"search", "libraries", "set_main"}
    BY <1>11 DEF Libraries, Search, Asked
  <2>2. \E answer : Reply(i, answer)
    BY <1>11 DEF Libraries, Search, DbFails
  <2> QED
    BY <1>2, <1>4, <2>1, <2>2
<1>12. CASE FindPicked(i) \/ SetMainTitle(i)
  <2>1. request.op = "set_main" /\ libraries # <<>>
    BY <1>12 DEF FindPicked, SetMainTitle, Asked, Checked
  <2>2. CASE \E answer : Reply(i, answer)
    BY <1>2, <1>4, <2>1, <2>2
  <2>3. CASE Proceed(i) /\ \E r \in RowAt(request.library[1], request.path) : TRUE
    <3>1. request.library[1] \in LibraryName
      BY <2>3 DEF RowAt, NamesInv
    <3> QED
      BY <1>2, <1>6, <2>1, <2>3, <3>1
  <2> QED
    BY <1>12, <2>2, <2>3 DEF FindPicked, SetMainTitle, DbFails
<1> QED
  BY <1>7, <1>8, <1>9, <1>10, <1>11, <1>12 DEF Handle

(* A step that keeps the requests in their places, and gives no answer with
   another star, disturbs nothing. *)
LEMMA RequestsKept ==
  ASSUME RequestsInv, OrderlyInv, StarInv, UNCHANGED tab,
         Len(calls') = Len(calls), DOMAIN calls' = DOMAIN calls,
         \A i \in DOMAIN calls : calls'[i].request = calls[i].request,
         \/ \E i \in DOMAIN calls : calls[i].request.op = "set_main"
         \/ /\ \A listing : StarsThePick(overrides, listing) => StarsThePick(overrides', listing)
            /\ \A i \in DOMAIN calls :
                 \/ calls'[i] = calls[i]
                 \/ /\ calls[i].request.op = "browse"
                    /\ calls'[i].phase = "answered"
                    /\ Ok(calls'[i].answer)
                    => StarsThePick(overrides', calls'[i].answer.body)
  PROVE  OrderlyInv' /\ StarInv'
<1>1. DOMAIN calls = 1..Len(calls) /\ Len(calls) \in Nat
  BY CallsShape DEF RequestsInv
<1>2. OrderlyInv'
  <2>1. LoadedOf(url) => LoadedOf(url)'
    BY DEF LoadedOf, tab
  <2>2. Len(calls) = 1 => calls'[1].request = calls[1].request
    BY <1>1
  <2> QED
    BY <2>1, <2>2 DEF OrderlyInv, tab
<1>3. StarInv'
  <2> SUFFICES ASSUME orderly, url.page = "browse",
                      \A i \in DOMAIN calls : calls[i].request.op # "set_main"
               PROVE  \/ Len(calls) = 0 /\ StarsThePick(overrides', page.listing)
                      \/ /\ Len(calls) # 0
                         /\ LET last == calls'[Len(calls)]
                            IN  last.phase = "answered" /\ Ok(last.answer) =>
                                  StarsThePick(overrides', last.answer.body)
    BY DEF StarInv, tab
  <2>1. CASE Len(calls) = 0
    BY <2>1 DEF StarInv, tab
  <2>2. CASE Len(calls) # 0
    <3>1. Len(calls) \in DOMAIN calls
      BY <1>1, <2>2
    <3> DEFINE n == Len(calls)
    <3>2. calls[n].request.op = "browse"
      BY <3>1, BrowseOnly DEF BrowseRequest
    <3>3. calls[n].phase = "answered" /\ Ok(calls[n].answer) =>
            StarsThePick(overrides, calls[n].answer.body)
      BY <2>2 DEF StarInv
    <3>4. \/ calls'[n] = calls[n]
          \/ calls'[n].phase = "answered" /\ Ok(calls'[n].answer) =>
               StarsThePick(overrides', calls'[n].answer.body)
      BY <3>1, <3>2
    <3>5. calls'[n].phase = "answered" /\ Ok(calls'[n].answer) =>
            StarsThePick(overrides', calls'[n].answer.body)
      BY <3>3, <3>4
    <3> QED
      BY <2>2, <3>5
  <2> QED
    BY <2>1, <2>2
<1> QED
  BY <1>2, <1>3

LEMMA BackendQuiet ==
  ASSUME QuietInv, Backend, UNCHANGED tab
  PROVE  AnswersInv' /\ OrderlyInv' /\ StarInv' /\ Len(calls') = Len(calls)
<1>1. RequestsInv /\ AnswersInv /\ KeysInv /\ NamesInv /\ OrderlyInv /\ StarInv
  BY DEF QuietInv, TabInv, TableInv, KeptInv
<1>2. DOMAIN calls = 1..Len(calls) /\ Len(calls) \in Nat
  BY <1>1, CallsShape DEF RequestsInv
<1> DEFINE SameLength == Len(calls') = Len(calls)
<1>a. DOMAIN calls' = DOMAIN calls => SameLength
  <2>1. RequestsInv'
    BY BackendGood DEF QuietInv, TabInv
  <2>2. DOMAIN calls' = 1..Len(calls') /\ Len(calls') \in Nat
    BY <2>1, CallsShape DEF RequestsInv
  <2>3. ASSUME DOMAIN calls' = DOMAIN calls
        PROVE  SameLength
    <3>1. 1..Len(calls') = 1..Len(calls)
      BY <1>2, <2>2, <2>3
    <3> QED
      BY <1>2, <2>2, <3>1, SameRange
  <2> QED
    BY <2>3
<1>3. ASSUME UNCHANGED calls, overrides' = overrides \/ overrides' = <<>>
      PROVE  OrderlyInv' /\ StarInv'
  <2>1. \A listing : StarsThePick(overrides, listing) => StarsThePick(overrides', listing)
    BY <1>3 DEF StarsThePick
  <2> QED
    BY <1>1, <1>3, <2>1, RequestsKept
<1>4. ASSUME UNCHANGED <<libraries, overrides, calls>>
      PROVE  AnswersInv' /\ OrderlyInv' /\ StarInv' /\ Len(calls') = Len(calls)
  BY <1>1, <1>3, <1>4 DEF AnswersInv, AnswersItsRequest, HasItsLibrary, LibraryAsked
<1>5. CASE DiskChanges
  <2>1. \E path, directories : Change(path, directories)
    BY <1>5 DEF DiskChanges, RemoveVideo, PutVideo, PutNfo, MakeDirectory, RemoveDirectory
  <2> QED
    BY <1>4, <2>1 DEF Change, tables
<1>6. CASE \/ Reads \/ WriteDirectory
           \/ \E i \in DOMAIN libraries, dir \in Directory : ForgetTree(i, dir)
  BY <1>4, <1>6 DEF Reads, OpenDirectory, StatEntry, BuildRecord, Reading,
     WriteDirectory, ForgetTree, tables
<1>7. CASE \E setup \in Setups, binary \in Binaries : Start(setup, binary)
  <2>1. /\ libraries = <<>> /\ UNCHANGED calls
        /\ overrides' = overrides \/ overrides' = <<>>
    BY <1>7 DEF Start
  <2>2. AnswersInv'
    BY <1>1, <2>1 DEF AnswersInv, AnswersItsRequest, HasItsLibrary
  <2> QED
    BY <1>3, <2>1, <2>2
<1>8. CASE Crash
  <2>1. \A i \in DOMAIN calls :
          /\ calls'[i].phase = "answered"
          /\ calls'[i].request = calls[i].request
          /\ calls'[i] = calls[i] \/ calls'[i].answer = Lost
    <3> SUFFICES ASSUME NEW i \in DOMAIN calls
                 PROVE  /\ calls'[i].phase = "answered"
                        /\ calls'[i].request = calls[i].request
                        /\ calls'[i] = calls[i] \/ calls'[i].answer = Lost
      OBVIOUS
    <3>1. calls[i] = [request |-> calls[i].request, phase |-> calls[i].phase,
                      answer |-> calls[i].answer]
      BY <1>1, CallsShape DEF RequestsInv
    <3>2. calls'[i] = IF calls[i].phase = "answered" THEN calls[i]
                      ELSE [calls[i] EXCEPT !.phase = "answered", !.answer = Lost]
      BY <1>8 DEF Crash
    <3> QED
      BY <3>1, <3>2
  <2>2. ~ Ok(Lost)
    BY DEF Ok, Lost, Answer
  <2>3. DOMAIN calls' = DOMAIN calls /\ Len(calls') = Len(calls)
    BY <1>a, <1>8 DEF Crash
  <2>4. overrides' = overrides
    BY <1>8 DEF Crash, tables
  <2>5. AnswersInv'
    BY <1>1, <2>1, <2>2, <2>3 DEF AnswersInv, AnswersItsRequest, HasItsLibrary
  <2>6. OrderlyInv' /\ StarInv'
    <3>1. \A listing : StarsThePick(overrides, listing) => StarsThePick(overrides', listing)
      BY <2>4 DEF StarsThePick
    <3> QED
      BY <1>1, <2>1, <2>2, <2>3, <3>1, RequestsKept
  <2> QED
    BY <2>3, <2>5, <2>6
<1>9. CASE \E i \in DOMAIN calls : Handle(i)
  <2>1. PICK i \in DOMAIN calls : Handle(i)
    BY <1>9
  <2>2. PICK c : /\ calls' = [calls EXCEPT ![i] = c]
                 /\ c.request = calls[i].request
                 /\ GoodAnswer(c)
    BY <1>1, <2>1, HandleCall
  <2>3. UNCHANGED libraries /\ (calls[i].request.op = "set_main" \/ UNCHANGED overrides)
    BY <1>1, <2>1, HandleCall
  <2>4. /\ DOMAIN calls' = DOMAIN calls /\ Len(calls') = Len(calls)
        /\ calls'[i] = c
        /\ \A j \in DOMAIN calls : j # i => calls'[j] = calls[j]
    BY <1>a, <2>2
  <2>5. AnswersInv'
    <3> SUFFICES ASSUME NEW j \in DOMAIN calls
                 PROVE  (AnswersItsRequest(calls[j]) /\ HasItsLibrary(calls[j]))'
      BY <2>4 DEF AnswersInv
    <3>1. AnswersItsRequest(calls'[j]) /\ HasItsLibrary(calls'[j])
      BY <1>1, <2>2, <2>4 DEF AnswersInv, GoodAnswer
    <3> QED
      BY <2>3, <3>1 DEF AnswersItsRequest, HasItsLibrary, LibraryAsked
  <2>6. OrderlyInv' /\ StarInv'
    <3>1. CASE calls[i].request.op = "set_main"
      BY <1>1, <2>2, <2>4, <3>1, RequestsKept
    <3>2. CASE UNCHANGED overrides
      <4>1. \A listing : StarsThePick(overrides, listing) <=> StarsThePick(overrides', listing)
        BY <3>2 DEF StarsThePick
      <4>2. \A j \in DOMAIN calls :
               \/ calls'[j] = calls[j]
               \/ /\ calls[j].request.op = "browse"
                  /\ calls'[j].phase = "answered"
                  /\ Ok(calls'[j].answer)
                  => StarsThePick(overrides', calls'[j].answer.body)
        BY <2>2, <2>4, <4>1 DEF GoodAnswer
      <4> QED
        BY <1>1, <2>2, <2>4, <4>1, <4>2, RequestsKept
    <3> QED
      BY <2>3, <3>1, <3>2
  <2> QED
    BY <2>4, <2>5, <2>6
<1> QED
  BY <1>5, <1>6, <1>7, <1>8, <1>9 DEF Backend, Reads
-------------------------------------------------------------------------------
(* The tab's steps.  They add requests not yet answered and take answers away. *)
LEMMA AnswersKept ==
  ASSUME AnswersInv, UNCHANGED libraries,
         \A i \in DOMAIN calls' :
           \/ calls'[i].phase = "sent"
           \/ \E j \in DOMAIN calls : calls'[i] = calls[j]
  PROVE  AnswersInv'
<1> SUFFICES ASSUME NEW i \in DOMAIN calls'
             PROVE  /\ AnswersItsRequest(calls'[i])
                    /\ HasItsLibrary(calls'[i])
  BY DEF AnswersInv, AnswersItsRequest, HasItsLibrary, LibraryAsked
<1> QED
  BY DEF AnswersInv, AnswersItsRequest, HasItsLibrary

LEMMA NavigateQuiet ==
  ASSUME QuietInv, NEW route \in Route, Navigate(route)
  PROVE  AnswersInv' /\ OrderlyInv' /\ StarInv'
<1>1. AreCalls(calls) /\ PageInv /\ AnswersInv /\ OrderlyInv /\ StarInv
  BY DEF QuietInv, TabInv, RequestsInv
<1>2. /\ Len(calls) \in Nat /\ DOMAIN calls = 1..Len(calls)
      /\ calls = <<>> <=> Len(calls) = 0
  BY <1>1, CallsShape
<1>3. /\ url' = route /\ UNCHANGED <<libraries, overrides>>
      /\ orderly' => orderly /\ Len(calls) = 0
  BY <1>2 DEF Navigate, UrlChanged, Unchanged, tables
<1>4. CASE SameDirectory(route)
  <2>1. UNCHANGED calls /\ page' = updateParams(page, route.number)
    BY <1>4 DEF Navigate, UrlChanged
  <2>2. AnswersInv'
    BY <1>1, <1>3, <2>1, AnswersKept
  <2>3. page'.route.page = "browse" /\ route.page = "browse" /\ url.page = "browse"
    <3>1. page.route.page = "browse" /\ route.page = "browse"
      BY <1>4 DEF SameDirectory
    <3>2. CASE page.state = "loading"
      <4>1. PICK old \in Route : page = [route |-> old, state |-> "loading"]
        BY <1>1, <3>2 DEF PageInv
      <4>2. page'.route = [old EXCEPT !.number = route.number]
        BY <2>1, <3>2, <4>1 DEF updateParams
      <4>3. /\ old \in [page : {"browse"}, library : LibraryName, dir : Directory,
                        number : Nat]
        BY <3>1, <4>1 DEF Route
      <4> QED
        BY <1>1, <3>1, <4>2, <4>3 DEF OrderlyInv
    <3>3. CASE page.state = "loaded"
      <4>1. PICK listing, number : page = LoadedListing(listing, number)
        BY <1>1, <3>1, <3>3 DEF PageInv
      <4>2. page' = LoadedListing(listing, route.number)
        BY <2>1, <4>1 DEF updateParams, LoadedListing
      <4> QED
        BY <1>1, <3>1, <4>2 DEF OrderlyInv, LoadedListing
    <3>4. CASE page.state = "failed"
      BY <1>1, <2>1, <3>1, <3>4 DEF updateParams, OrderlyInv
    <3> QED
      BY <1>1, <3>2, <3>3, <3>4 DEF PageInv
  <2>4. ASSUME orderly'
        PROVE  /\ page'.state = "loaded" /\ LoadedOf(url)'
               /\ Len(calls) = 0 /\ StarsThePick(overrides, page'.listing)
    <3>1. orderly /\ Len(calls) = 0
      BY <1>3, <2>4
    <3>2. page.state = "loaded" /\ LoadedOf(url)
      BY <1>1, <3>1 DEF OrderlyInv
    <3>3. PICK listing, number : page = LoadedListing(listing, number)
      BY <1>1, <2>3, <3>2 DEF PageInv, OrderlyInv
    <3>4. page' = LoadedListing(listing, route.number)
      BY <2>1, <3>3 DEF updateParams, LoadedListing
    <3>5. listing.library = route.library /\ listing.path = route.dir
      BY <1>4, <3>3 DEF SameDirectory, currentLocation, Location, LoadedListing
    <3>6. StarsThePick(overrides, listing)
      BY <1>1, <1>2, <2>3, <3>1, <3>3 DEF StarInv, LoadedListing
    <3>7. LoadedOf(url)'
      BY <1>2, <1>3, <2>1, <2>3, <3>1, <3>4, <3>5 DEF LoadedOf, LoadedListing
    <3> QED
      BY <3>1, <3>4, <3>6, <3>7 DEF LoadedListing
  <2>5. OrderlyInv' /\ StarInv'
    BY <1>3, <2>1, <2>3, <2>4 DEF OrderlyInv, StarInv
  <2> QED
    BY <2>2, <2>5
<1>5. CASE ~ SameDirectory(route)
  <2>1. PICK r : RequestOf(route) = <<r>> /\ TabRequest(r)
    BY RequestOfRoute
  <2>2. page' = Loading(route) /\ calls' = Append(calls, Call(r))
    <3>1. page' = Loading(route) /\ calls' = calls \o CallsOf(<<r>>)
      BY <1>5, <2>1 DEF Navigate, UrlChanged
    <3> QED
      BY <1>1, <2>1, <3>1, AppendCall
  <2> DEFINE n == Len(calls)
  <2>3. /\ Len(calls') = n + 1 /\ calls'[n + 1] = Call(r)
        /\ \A j \in 1..n : calls'[j] = calls[j]
        /\ DOMAIN calls' = 1..(n + 1)
    <3>1. AreCalls(calls')
      BY <1>1, <2>1, <2>2, AppendCall
    <3>2. /\ Len(calls') = n + 1 /\ calls'[n + 1] = Call(r)
          /\ \A j \in 1..n : calls'[j] = calls[j]
      BY <1>1, <2>1, <2>2, AppendCall
    <3> QED
      BY <3>1, <3>2, CallsShape
  <2>4. Call(r).phase = "sent" /\ Call(r).request = r
    BY DEF Call
  <2>5. AnswersInv'
    <3>1. \A i \in DOMAIN calls' :
            \/ calls'[i].phase = "sent"
            \/ \E j \in DOMAIN calls : calls'[i] = calls[j]
      BY <1>2, <2>3, <2>4
    <3> QED
      BY <1>1, <1>3, <3>1, AnswersKept
  <2>6. OrderlyInv'
    <3>1. page'.route.page = route.page
      BY <2>2 DEF Loading
    <3>2. orderly' => Len(calls') = 1 /\ RequestOf(route) = << calls'[1].request >>
      BY <1>3, <2>1, <2>3, <2>4
    <3> QED
      BY <1>3, <2>2, <3>1, <3>2 DEF OrderlyInv
  <2>7. StarInv'
    BY <1>2, <2>3, <2>4 DEF StarInv
  <2> QED
    BY <2>5, <2>6, <2>7
<1> QED
  BY <1>4, <1>5

LEMMA GoToPageQuiet ==
  ASSUME QuietInv, NEW number, GoToPage(number)
  PROVE  AnswersInv' /\ OrderlyInv' /\ StarInv'
<1>1. PageInv /\ AnswersInv /\ OrderlyInv /\ StarInv
  BY DEF QuietInv, TabInv
<1>2. PICK listing, old : page = LoadedListing(listing, old)
  BY <1>1 DEF PageInv, GoToPage
<1>3. /\ page' = LoadedListing(listing, number)
      /\ url' = [page |-> "browse", library |-> listing.library, dir |-> listing.path,
                 number |-> number]
      /\ UNCHANGED <<orderly, calls, libraries, overrides>>
  BY <1>2 DEF GoToPage, LoadedListing, Unchanged, tables
<1>4. url.page = "browse"
  BY <1>1 DEF GoToPage, OrderlyInv
<1>5. AnswersInv'
  BY <1>1, <1>3, AnswersKept
<1>6. OrderlyInv'
  <2>1. page'.route.page = "browse" /\ page'.state = "loaded"
    BY <1>3 DEF LoadedListing
  <2>2. orderly => LoadedOf(url)'
    <3>1. orderly => LoadedOf(url)
      BY <1>1, <1>2 DEF OrderlyInv, Loading, LoadedListing
    <3> QED
      BY <1>2, <1>3, <1>4, <3>1 DEF LoadedOf, LoadedListing
  <2> QED
    BY <1>3, <2>1, <2>2 DEF OrderlyInv
<1>7. StarInv'
  BY <1>1, <1>2, <1>3, <1>4 DEF StarInv, LoadedListing
<1> QED
  BY <1>5, <1>6, <1>7

LEMMA PickMainQuiet ==
  ASSUME QuietInv, NEW entry, NEW row, PickMain(entry, row)
  PROVE  AnswersInv' /\ OrderlyInv' /\ StarInv'
<1> DEFINE r == [op |-> "set_main", library |-> <<page.listing.library>>,
                 disc_set |-> entry.disc_set, path |-> PathOf(row)]
           n == Len(calls)
<1>1. AreCalls(calls) /\ PageInv /\ AnswersInv /\ OrderlyInv
  BY DEF QuietInv, TabInv, RequestsInv
<1>2. /\ calls' = Append(calls, Call(r))
      /\ page.route.page = "browse" /\ page.state = "loaded"
      /\ UNCHANGED <<url, page, orderly, libraries>>
  BY DEF PickMain, Unchanged
<1>3. r.op = "set_main" /\ TabRequest(r)
  BY DEF TabRequest
<1> HIDE DEF r
<1>4. Call(r).phase = "sent" /\ Call(r).request = r
  BY DEF Call
<1>5. /\ DOMAIN calls' = 1..(n + 1) /\ calls'[n + 1] = Call(r) /\ n \in Nat
      /\ \A j \in 1..n : calls'[j] = calls[j]
      /\ DOMAIN calls = 1..n
  <2>1. /\ AreCalls(calls') /\ Len(calls') = n + 1 /\ calls'[n + 1] = Call(r)
        /\ \A j \in 1..n : calls'[j] = calls[j]
    BY <1>1, <1>2, <1>3, AppendCall
  <2> QED
    BY <1>1, <2>1, CallsShape
<1>6. AnswersInv'
  <2>1. \A i \in DOMAIN calls' :
          \/ calls'[i].phase = "sent"
          \/ \E j \in DOMAIN calls : calls'[i] = calls[j]
    BY <1>4, <1>5
  <2> QED
    BY <1>1, <1>2, <2>1, AnswersKept
<1>7. OrderlyInv'
  <2>1. orderly => LoadedOf(url)
    BY <1>1, <1>2 DEF OrderlyInv, Loading
  <2>2. url.page = "browse"
    BY <1>1, <1>2 DEF OrderlyInv
  <2>3. orderly => LoadedOf(url)'
    BY <1>2, <1>3, <1>4, <1>5, <2>1, <2>2 DEF LoadedOf
  <2> QED
    BY <1>1, <1>2, <2>3 DEF OrderlyInv
<1>8. StarInv'
  BY <1>3, <1>4, <1>5 DEF StarInv
<1> QED
  BY <1>6, <1>7, <1>8

(* What is left when the first answer is taken. *)
LEMMA DeliverQuiet ==
  ASSUME QuietInv, NEW i \in DOMAIN calls, Deliver(i)
  PROVE  AnswersInv' /\ OrderlyInv' /\ StarInv'
<1> DEFINE op == calls[i].request.op
           answer == calls[i].answer
           rest == RemoveAt(calls, i)
           n == Len(calls)
<1>1. RequestsInv /\ AreCalls(calls) /\ PageInv /\ AnswersInv /\ OrderlyInv /\ StarInv
  BY DEF QuietInv, TabInv, RequestsInv
<1>2. /\ n \in Nat /\ DOMAIN calls = 1..n /\ i \in 1..n
      /\ TabRequest(calls[i].request) /\ op \in Op
  BY <1>1, CallsShape, RequestOp
<1>3. /\ AreCalls(rest) /\ Len(rest) = n - 1 /\ DOMAIN rest = 1..(n - 1)
      /\ \A j \in DOMAIN rest : \E k \in DOMAIN calls : rest[j] = calls[k]
      /\ i = 1 => \A j \in 1..(n - 1) : rest[j] = calls[j + 1]
  <2>1. AreCalls(rest) /\ Len(rest) = n - 1
    BY <1>1, RemoveCall
  <2>2. DOMAIN rest = 1..(n - 1)
    BY <2>1, CallsShape
  <2>3. /\ \A j \in DOMAIN rest : \E k \in DOMAIN calls : rest[j] = calls[k]
        /\ i = 1 => \A j \in 1..(n - 1) : rest[j] = calls[j + 1]
    BY <1>1, RemoveCall
  <2> QED
    BY <2>1, <2>2, <2>3
<1>4. /\ calls[i].phase = "answered"
      /\ UNCHANGED <<url, libraries, overrides>>
      /\ orderly' => orderly /\ i = 1 /\ Ok(answer)
  BY DEF Deliver, Unchanged, tables
<1>5. AnswersItsRequest(calls[i])
  BY <1>1 DEF AnswersInv
<1>6. CASE op = "set_main"
  <2>1. page' = page /\ calls' = rest \o CallsOf(Refetch(answer))
    BY <1>6 DEF Deliver
  <2> DEFINE r == BrowseRequest(page.listing.library, page.listing.path)
  <2>2. CASE Refetch(answer) = <<>>
    <3>1. calls' = rest
      <4>1. CallsOf(<<>>) = <<>>
        BY DEF CallsOf
      <4>2. PICK R, A : rest \in Seq(CallOver(R, A))
        BY <1>3 DEF AreCalls
      <4> QED
        BY <2>1, <2>2, <4>1, <4>2, ConcatEmptySeq
    <3>2. AnswersInv'
      BY <1>1, <1>3, <1>4, <3>1, AnswersKept
    <3>3. ~ orderly'
      <4> SUFFICES ASSUME orderly, i = 1, Ok(answer)
                   PROVE  FALSE
        BY <1>4
      <4>1. page.route.page = "browse" /\ page.state = "loaded"
        <5>1. CASE /\ page = Loading(url)
                   /\ n = 1 /\ RequestOf(url) = << calls[1].request >>
          <6>1. page.state = "loading" /\ page.route = url
            BY <5>1 DEF Loading
          <6>2. url \in Route
            BY <1>1, <6>1 DEF PageInv
          <6> QED
            BY <1>6, <5>1, <6>2, RequestOfRoute
        <5>2. CASE page.state = "loaded" /\ LoadedOf(url)
          <6>1. n # 0
            BY <1>2
          <6>2. url.page = "browse"
            BY <5>2, <6>1 DEF LoadedOf
          <6> QED
            BY <1>1, <5>2, <6>2 DEF OrderlyInv
        <5> QED
          BY <1>1, <5>1, <5>2 DEF OrderlyInv
      <4> QED
        BY <2>2, <4>1 DEF Refetch
    <3> QED
      BY <1>1, <1>4, <2>1, <3>2, <3>3 DEF OrderlyInv, StarInv
  <2>3. CASE Refetch(answer) # <<>>
    <3>1. page.state = "loaded" /\ page.route.page = "browse" /\ Refetch(answer) = <<r>>
      BY <2>3 DEF Refetch
    <3>2. TabRequest(r)
      BY DEF TabRequest
    <3>3. Call(r).phase = "sent" /\ Call(r).request = r
      BY DEF Call
    <3> HIDE DEF r, rest, answer
    <3>4. calls' = Append(rest, Call(r))
      BY <1>3, <2>1, <3>1, <3>2, AppendCall
    <3>5. /\ AreCalls(calls') /\ Len(calls') = n
          /\ calls'[n] = Call(r)
          /\ \A j \in 1..(n - 1) : calls'[j] = rest[j]
      <4>1. /\ AreCalls(calls') /\ Len(calls') = Len(rest) + 1
            /\ calls'[Len(rest) + 1] = Call(r)
            /\ \A j \in 1..Len(rest) : calls'[j] = rest[j]
        BY <1>3, <3>2, <3>4, AppendCall
      <4>2. Len(rest) + 1 = n
        BY <1>2, <1>3
      <4> QED
        BY <1>3, <4>1, <4>2
    <3>6. DOMAIN calls' = 1..n
      BY <3>5, CallsShape
    <3>7. AnswersInv'
      <4>1. \A j \in DOMAIN calls' :
              \/ calls'[j].phase = "sent"
              \/ \E k \in DOMAIN calls : calls'[j] = calls[k]
        <5> TAKE j \in DOMAIN calls'
        <5>1. j = n \/ j \in 1..(n - 1)
          BY <1>2, <3>6
        <5> QED
          BY <1>3, <3>3, <3>5, <5>1
      <4> QED
        BY <1>1, <1>4, <4>1, AnswersKept
    <3>8. OrderlyInv'
      <4>1. url.page = "browse"
        BY <1>1, <3>1 DEF OrderlyInv
      <4>2. orderly => LoadedOf(url)
        BY <1>1, <3>1 DEF OrderlyInv, Loading
      <4>3. orderly => LoadedOf(url)'
        <5> SUFFICES ASSUME orderly
                     PROVE  LoadedOf(url)'
          OBVIOUS
        <5>1. r = BrowseRequest(url.library, url.dir)
          BY <4>1, <4>2 DEF LoadedOf, r
        <5>2. \A j \in DOMAIN calls' :
                \/ calls'[j].request.op = "set_main"
                \/ calls'[j].request = BrowseRequest(url.library, url.dir)
          <6> TAKE j \in DOMAIN calls'
          <6>1. j = n \/ j \in 1..(n - 1)
            BY <1>2, <3>6
          <6>2. CASE j = n
            BY <3>3, <3>5, <5>1, <6>2
          <6>3. CASE j \in 1..(n - 1)
            <7>1. PICK k \in DOMAIN calls : calls'[j] = calls[k]
              BY <1>3, <3>5, <6>3
            <7> QED
              BY <4>1, <4>2, <7>1 DEF LoadedOf
          <6> QED
            BY <6>1, <6>2, <6>3
        <5> QED
          BY <1>4, <2>1, <4>1, <4>2, <5>2 DEF LoadedOf
      <4> QED
        BY <1>1, <1>4, <2>1, <3>1, <4>3 DEF OrderlyInv
    <3>9. StarInv'
      BY <1>2, <3>3, <3>5 DEF StarInv
    <3> QED
      BY <3>7, <3>8, <3>9
  <2> QED
    BY <2>2, <2>3
<1>7. CASE op # "set_main"
  <2>1. /\ calls' = rest
        /\ page' = CASE op = "browse"    -> GotListing(answer)
                     [] op = "item"      -> GotItem(answer)
                     [] op = "search"    -> GotResults(answer, "search")
                     [] op = "libraries" -> GotResults(answer, "home")
                     [] op = "set_main"  -> page
    BY <1>7 DEF Deliver
  <2> HIDE DEF rest, answer
  <2>2. /\ op = "browse" => page' = GotListing(answer)
        /\ op = "item" => page' = GotItem(answer)
        /\ op = "search" => page' = GotResults(answer, "search")
        /\ op = "libraries" => page' = GotResults(answer, "home")
    BY <2>1
  <2>3. AnswersInv'
    BY <1>1, <1>3, <1>4, <2>1, AnswersKept
  <2>4. page'.route.page = page.route.page
    <3>1. CASE op = "browse"
      <4>1. CASE page.state = "loaded" /\ page.route.page = "browse" /\ Ok(answer)
        <5>1. PICK listing, number : page = LoadedListing(listing, number)
          BY <1>1, <4>1 DEF PageInv
        <5> QED
          BY <2>2, <3>1, <4>1, <5>1 DEF GotListing, LoadedListing
      <4> QED
        BY <2>2, <3>1, <4>1 DEF GotListing, LoadedListing, Failed
    <3>2. CASE op = "item"
      BY <2>2, <3>2 DEF GotItem, LoadedItem
    <3>3. CASE op \in {"search", "libraries"}
      BY <2>2, <3>3 DEF GotResults, LoadedResults, Failed
    <3> QED
      BY <1>2, <1>7, <3>1, <3>2, <3>3 DEF Op
  <2>5. CASE ~ orderly'
    BY <1>1, <1>4, <2>3, <2>4, <2>5 DEF OrderlyInv, StarInv
  <2>6. CASE orderly'
    <3>1. orderly /\ i = 1 /\ Ok(answer)
      BY <1>4, <2>6
    <3>2. CASE /\ page = Loading(url)
               /\ n = 1 /\ RequestOf(url) = << calls[1].request >>
      <4>1. page.state = "loading" /\ page.route = url
        BY <3>2 DEF Loading
      <4>2. url \in Route
        BY <1>1, <4>1 DEF PageInv
      <4>3. Len(calls') = 0 /\ DOMAIN calls' = {}
        BY <1>3, <2>1, <3>2
      <4>4. CASE url.page = "browse"
        <5>1. calls[i].request = BrowseRequest(url.library, url.dir)
          BY <3>1, <3>2, <4>4 DEF RequestOf
        <5>2. /\ op = "browse" /\ calls[i].request.library[1] = url.library
              /\ calls[i].request.dir = url.dir
          BY <5>1 DEF BrowseRequest
        <5>3. page' = LoadedListing(answer.body, url.number)
          BY <2>2, <3>1, <4>1, <4>4, <5>2 DEF GotListing
        <5>4. answer.body.library = url.library /\ answer.body.path = url.dir
          BY <1>4, <1>5, <3>1, <5>2 DEF AnswersItsRequest, answer
        <5>5. LoadedOf(url)'
          BY <1>4, <4>3, <4>4, <5>3, <5>4 DEF LoadedOf, LoadedListing
        <5>6. StarsThePick(overrides, answer.body)
          BY <1>1, <1>2, <1>4, <3>1, <3>2, <4>4, <5>2 DEF StarInv, answer
        <5> QED
          BY <1>4, <2>3, <2>4, <4>1, <4>3, <4>4, <5>3, <5>5, <5>6
             DEF OrderlyInv, StarInv, LoadedListing
      <4>5. CASE url.page = "player"
        <5>1. calls[i].request = ItemRequest(url.library, url.path)
          BY <3>1, <3>2, <4>5 DEF RequestOf
        <5>2. /\ op = "item" /\ calls[i].request.library[1] = url.library
              /\ calls[i].request.path = url.path
          BY <5>1 DEF ItemRequest
        <5>3. page' = LoadedItem(answer.body)
          BY <2>2, <3>1, <4>1, <4>5, <5>2 DEF GotItem
        <5>4. answer.body.library = url.library /\ answer.body.path = url.path
          BY <1>4, <1>5, <3>1, <5>2 DEF AnswersItsRequest, answer
        <5>5. LoadedOf(url)'
          BY <1>4, <4>3, <4>5, <5>3, <5>4 DEF LoadedOf, LoadedItem
        <5> QED
          BY <1>4, <2>3, <2>4, <4>1, <4>5, <5>3, <5>5 DEF OrderlyInv, StarInv, LoadedItem
      <4>6. CASE url.page \in {"search", "home"}
        <5>1. \/ url.page = "search" /\ op = "search"
              \/ url.page = "home" /\ op = "libraries"
          BY <3>1, <3>2, <4>2, <4>6, RequestOfRoute
        <5>2. page' = LoadedResults(url, answer.body)
          BY <2>2, <3>1, <4>1, <5>1 DEF GotResults
        <5>3. LoadedOf(url)'
          BY <1>4, <4>3, <4>6, <5>2 DEF LoadedOf, LoadedResults
        <5> QED
          BY <1>4, <2>3, <2>4, <4>1, <4>6, <5>2, <5>3
             DEF OrderlyInv, StarInv, LoadedResults
      <4>7. url.page \in {"home", "browse", "player", "search"}
        BY <4>2 DEF Route
      <4> QED
        BY <4>4, <4>5, <4>6, <4>7
    <3>3. CASE page.state = "loaded" /\ LoadedOf(url)
      <4>1. url.page = "browse"
        BY <1>2, <3>3 DEF LoadedOf
      <4>2. calls[i].request = BrowseRequest(url.library, url.dir)
        BY <1>1, <1>7, <3>1, <4>1, BrowseOnly
      <4>3. /\ op = "browse" /\ calls[i].request.library[1] = url.library
            /\ calls[i].request.dir = url.dir
        BY <4>2 DEF BrowseRequest
      <4>4. page.route.page = "browse"
        BY <1>1, <4>1 DEF OrderlyInv
      <4>5. PICK listing, number : page = LoadedListing(listing, number)
        BY <1>1, <3>3, <4>4 DEF PageInv
      <4>6. page' = LoadedListing(answer.body, number)
        BY <2>2, <3>1, <3>3, <4>3, <4>4, <4>5 DEF GotListing, LoadedListing
      <4>7. answer.body.library = url.library /\ answer.body.path = url.dir
        BY <1>4, <1>5, <3>1, <4>3 DEF AnswersItsRequest, answer
      <4>8. number = url.number
        BY <3>3, <4>1, <4>5 DEF LoadedOf, LoadedListing
      <4>9. \A j \in DOMAIN calls' :
              \/ calls'[j].request.op = "set_main"
              \/ calls'[j].request = BrowseRequest(url.library, url.dir)
        BY <1>3, <2>1, <3>3, <4>1 DEF LoadedOf
      <4>10. LoadedOf(url)'
        BY <1>4, <4>1, <4>6, <4>7, <4>8, <4>9 DEF LoadedOf, LoadedListing
      <4>11. OrderlyInv'
        BY <1>4, <2>4, <4>1, <4>4, <4>6, <4>10 DEF OrderlyInv, LoadedListing
      <4>12. StarInv'
        <5>1. CASE \E k \in DOMAIN calls : calls[k].request.op = "set_main"
          <6>1. PICK k \in DOMAIN calls : calls[k].request.op = "set_main"
            BY <5>1
          <6>2. k - 1 \in 1..(n - 1) /\ (k - 1) + 1 = k
            BY <1>2, <1>7, <3>1, <6>1
          <6>3. k - 1 \in DOMAIN calls' /\ calls'[k - 1] = calls[k]
            BY <1>3, <2>1, <3>1, <6>2
          <6> QED
            BY <6>1, <6>3 DEF StarInv
        <5>2. CASE \A k \in DOMAIN calls : calls[k].request.op # "set_main"
          <6>1. calls[n].phase = "answered" /\ Ok(calls[n].answer) =>
                  StarsThePick(overrides, calls[n].answer.body)
            BY <1>1, <1>2, <3>1, <4>1, <5>2 DEF StarInv
          <6>2. CASE n = 1
            <7>1. StarsThePick(overrides, answer.body)
              BY <1>4, <3>1, <6>1, <6>2 DEF answer
            <7>2. Len(calls') = 0
              BY <1>3, <2>1, <6>2
            <7>3. page'.listing = answer.body
              BY <4>6 DEF LoadedListing
            <7> QED
              BY <1>4, <7>1, <7>2, <7>3 DEF StarInv
          <6>3. CASE n # 1
            <7>1. n - 1 \in 1..(n - 1) /\ (n - 1) + 1 = n
              BY <1>2, <6>3
            <7>2. Len(calls') = n - 1 /\ calls'[n - 1] = calls[n] /\ n - 1 # 0
              BY <1>3, <2>1, <3>1, <7>1
            <7> QED
              BY <1>4, <6>1, <7>2 DEF StarInv
          <6> QED
            BY <6>2, <6>3
        <5> QED
          BY <5>1, <5>2
      <4> QED
        BY <2>3, <4>11, <4>12
    <3> QED
      BY <1>1, <3>1, <3>2, <3>3 DEF OrderlyInv
  <2> QED
    BY <2>5, <2>6
<1> QED
  BY <1>6, <1>7

LEMMA QuietInit == TabInit => QuietInv
<1> SUFFICES ASSUME TabInit
             PROVE  QuietInv
  OBVIOUS
<1>1. TabInv
  BY TabInitGood, FrontendAssumption
<1>2. TableInv
  BY DEF TabInit, ServerInit, TableInv, ReadingInv, KeysInv, RowsInv, BorrowedTitleIsAlone
<1> DEFINE r == [op |-> "libraries"]
<1>3. RequestOf(Home) = <<r>>
  BY DEF RequestOf, Home
<1>4. calls = <<Call(r)>> /\ page = Loading(Home) /\ url = Home
  BY <1>3 DEF TabInit, CallsOf
<1>5. Call(r).phase = "sent" /\ Call(r).request = r
  BY DEF Call
<1> HIDE DEF r
<1>6. AnswersInv
  BY <1>4, <1>5 DEF AnswersInv, AnswersItsRequest, HasItsLibrary
<1>7. OrderlyInv
  BY <1>3, <1>4, <1>5 DEF OrderlyInv, Loading
<1>9. BoundsInv
  <2>1. Len(calls) <= MaxCalls
    BY <1>4, FrontendAssumption, CatalogueAssumption
  <2>2. url.page = "home"
    BY <1>4 DEF Home
  <2> QED
    BY <2>1, <2>2, FrontendAssumption DEF TabInit, BoundsInv
<1>10. KeptInv
  BY KeptInit DEF TabInit
<1>8. StarInv
  BY <1>4 DEF StarInv, Home
<1> QED
  BY <1>1, <1>2, <1>6, <1>7, <1>8, <1>9, <1>10 DEF QuietInv

LEMMA BoundsStep ==
  ASSUME QuietInv, [TabNext]_<<vars, tab>>
  PROVE  BoundsInv'
<1>1. AreCalls(calls) /\ BoundsInv
  BY DEF QuietInv, TabInv, RequestsInv
<1>2. /\ Len(calls) \in Nat /\ DOMAIN calls = 1..Len(calls)
      /\ MaxCalls \in Nat /\ MaxVisits \in Nat /\ MaxPicks \in Nat
  BY <1>1, CallsShape, FrontendAssumption, CatalogueAssumption
<1>3. CASE Backend /\ UNCHANGED tab
  BY <1>1, <1>3, BackendQuiet DEF BoundsInv, tab
<1>4. ASSUME NEW route \in Route, Navigate(route)
      PROVE  BoundsInv'
  <2>1. Len(calls') <= MaxCalls
    <3>1. CASE SameDirectory(route)
      BY <1>1, <1>4, <3>1 DEF BoundsInv, Navigate, UrlChanged
    <3>2. CASE ~ SameDirectory(route)
      <4>1. PICK r : RequestOf(route) = <<r>> /\ TabRequest(r)
        BY RequestOfRoute
      <4>2. calls' = calls \o CallsOf(<<r>>) /\ Len(calls) + Len(<<r>>) <= MaxCalls
        BY <1>4, <3>2, <4>1 DEF Navigate, UrlChanged
      <4>3. Len(calls') = Len(calls) + 1
        BY <1>1, <4>1, <4>2, AppendCall
      <4> QED
        BY <1>2, <4>2, <4>3
    <3> QED
      BY <3>1, <3>2
  <2>2. /\ visits' = visits + 1 /\ visits < MaxVisits /\ url' = route /\ picks' = picks
        /\ orderly' \in BOOLEAN
    BY <1>4 DEF Navigate, UrlChanged
  <2>3. route.page \in {"home", "browse", "player", "search"}
    BY DEF Route
  <2> QED
    BY <1>1, <1>2, <2>1, <2>2, <2>3 DEF BoundsInv
<1>5. ASSUME NEW number, GoToPage(number)
      PROVE  BoundsInv'
  BY <1>1, <1>2, <1>5 DEF BoundsInv, GoToPage
<1>6. ASSUME NEW entry, NEW row, PickMain(entry, row)
      PROVE  BoundsInv'
  <2> DEFINE r == [op |-> "set_main", library |-> <<page.listing.library>>,
                   disc_set |-> entry.disc_set, path |-> PathOf(row)]
  <2>1. /\ calls' = Append(calls, Call(r)) /\ Len(calls) < MaxCalls
        /\ picks' = picks + 1 /\ picks < MaxPicks
        /\ UNCHANGED <<url, visits, orderly>>
    BY <1>6 DEF PickMain
  <2>2. TabRequest(r)
    BY DEF TabRequest
  <2> HIDE DEF r
  <2>3. Len(calls') = Len(calls) + 1
    BY <1>1, <2>1, <2>2, AppendCall
  <2> QED
    BY <1>1, <1>2, <2>1, <2>3 DEF BoundsInv
<1>7. ASSUME NEW i \in DOMAIN calls, Deliver(i)
      PROVE  BoundsInv'
  <2> DEFINE rest == RemoveAt(calls, i)
             answer == calls[i].answer
             r == BrowseRequest(page.listing.library, page.listing.path)
  <2>1. AreCalls(rest) /\ Len(rest) = Len(calls) - 1 /\ Len(calls) # 0
    <3>1. AreCalls(rest) /\ Len(rest) = Len(calls) - 1
      BY <1>1, RemoveCall
    <3> QED
      BY <1>2, <3>1
  <2>2. \/ calls' = rest
        \/ calls' = rest \o CallsOf(<<>>)
        \/ calls' = rest \o CallsOf(<<r>>)
    BY <1>7 DEF Deliver, Refetch
  <2>3. UNCHANGED <<url, visits, picks>> /\ orderly' \in BOOLEAN
    BY <1>7 DEF Deliver
  <2> HIDE DEF rest
  <2>4. Len(calls') <= Len(calls)
    <3>1. rest \o CallsOf(<<>>) = rest
      <4>1. CallsOf(<<>>) = <<>>
        BY DEF CallsOf
      <4>2. PICK R, A : rest \in Seq(CallOver(R, A))
        BY <2>1 DEF AreCalls
      <4> QED
        BY <4>1, <4>2, ConcatEmptySeq
    <3>2. TabRequest(r)
      BY DEF TabRequest
    <3>3. Len(rest \o CallsOf(<<r>>)) = Len(rest) + 1
      BY <2>1, <3>2, AppendCall
    <3> QED
      BY <1>2, <2>1, <2>2, <3>1, <3>3
  <2>5. Len(calls') <= MaxCalls
    <3>1. Len(calls') \in Nat
      BY DeliverGood, CallsShape, <1>7 DEF QuietInv, TabInv, RequestsInv
    <3> QED
      BY <1>1, <1>2, <2>4, <3>1 DEF BoundsInv
  <2> QED
    BY <1>1, <2>3, <2>5 DEF BoundsInv
<1>8. CASE UNCHANGED <<vars, tab>>
  BY <1>1, <1>8 DEF BoundsInv, vars, tab
<1> QED
  BY <1>3, <1>4, <1>5, <1>6, <1>7, <1>8, FrontendAssumption DEF TabNext

LEMMA QuietStep == QuietInv /\ [TabNext]_<<vars, tab>> => QuietInv'
<1> SUFFICES ASSUME QuietInv, [TabNext]_<<vars, tab>>
             PROVE  QuietInv'
  OBVIOUS
<1>1. TabInv'
  BY TabStep DEF QuietInv
<1>2. TableInv'
  <2>1. CASE UNCHANGED <<rows, reading>>
    BY <2>1 DEF QuietInv, TableInv, ReadingInv, KeysInv, RowsInv, BorrowedTitleIsAlone
  <2>2. CASE \E route : Navigate(route)
    BY <2>1, <2>2 DEF Navigate, Unchanged, tables
  <2>3. CASE \E number : GoToPage(number)
    BY <2>1, <2>3 DEF GoToPage, Unchanged, tables
  <2>4. CASE \E entry, row : PickMain(entry, row)
    BY <2>1, <2>4 DEF PickMain, Unchanged, tables
  <2>5. CASE \E i : Deliver(i)
    BY <2>1, <2>5 DEF Deliver, Unchanged, tables
  <2>6. CASE UNCHANGED <<vars, tab>>
    BY <2>1, <2>6 DEF vars
  <2>7. CASE Backend
    BY <2>7, BackendTable DEF QuietInv
  <2> QED
    BY <2>2, <2>3, <2>4, <2>5, <2>6, <2>7 DEF TabNext
<1>3. AnswersInv' /\ OrderlyInv' /\ StarInv'
  <2>1. CASE Backend /\ UNCHANGED tab
    BY <2>1, BackendQuiet
  <2>2. CASE \E route \in Routes : Navigate(route)
    BY <2>2, NavigateQuiet, FrontendAssumption
  <2>3. CASE \E route \in Routes : route.page = "browse" /\ GoToPage(route.number)
    BY <2>3, GoToPageQuiet
  <2>4. CASE \E entry, row : PickMain(entry, row)
    BY <2>4, PickMainQuiet
  <2>5. CASE \E i \in DOMAIN calls : Deliver(i)
    BY <2>5, DeliverQuiet
  <2>6. CASE UNCHANGED <<vars, tab>>
    <3>1. UNCHANGED <<calls, page, url, orderly, libraries, overrides>>
      BY <2>6 DEF vars, tab
    <3> QED
      BY <3>1 DEF QuietInv, AnswersInv, AnswersItsRequest, HasItsLibrary, LibraryAsked,
         OrderlyInv, LoadedOf, StarInv
  <2> QED
    BY <2>1, <2>2, <2>3, <2>4, <2>5, <2>6 DEF TabNext
<1>4. KeptInv'
  <2>1. PicksNamed
    BY DEF QuietInv, AnswersInv, HasItsLibrary, PicksNamed
  <2>2. CASE UNCHANGED <<disk, changes, starts, libraries, version, rows, overrides, reading>>
    BY <2>2 DEF QuietInv, KeptInv, LibrariesInv, NamesInv, DiskInv, CountsInv
  <2>3. CASE \E route : Navigate(route)
    BY <2>2, <2>3 DEF Navigate, Unchanged, tables
  <2>4. CASE \E number : GoToPage(number)
    BY <2>2, <2>4 DEF GoToPage, Unchanged, tables
  <2>5. CASE \E entry, row : PickMain(entry, row)
    BY <2>2, <2>5 DEF PickMain, Unchanged, tables
  <2>6. CASE \E i : Deliver(i)
    BY <2>2, <2>6 DEF Deliver, Unchanged, tables
  <2>7. CASE UNCHANGED <<vars, tab>>
    BY <2>2, <2>7 DEF vars
  <2>8. CASE Backend
    BY <2>1, <2>8, BackendKept DEF QuietInv, TableInv
  <2> QED
    BY <2>3, <2>4, <2>5, <2>6, <2>7, <2>8 DEF TabNext
<1>5. BoundsInv'
  BY BoundsStep
<1> QED
  BY <1>1, <1>2, <1>3, <1>4, <1>5 DEF QuietInv

LEMMA QuietAlways == TabSpec => []QuietInv
<1>1. TabInit => QuietInv
  BY QuietInit
<1>2. QuietInv /\ [TabNext]_<<vars, tab>> => QuietInv'
  BY QuietStep
<1> QED
  BY <1>1, <1>2, PTL DEF TabSpec

LEMMA QuietIsLoaded ==
  ASSUME QuietInv, Quiet
  PROVE  LoadedOf(url)
<1>1. AreCalls(calls) /\ OrderlyInv /\ orderly /\ calls = <<>>
  BY DEF QuietInv, TabInv, RequestsInv, Quiet
<1>2. Len(calls) = 0
  BY <1>1, CallsShape
<1> QED
  BY <1>1, <1>2 DEF OrderlyInv

(* A tab that waited for every answer shows what its URL names: the server's
   answers are of what was asked, and a refetch is of the listing on show. *)
THEOREM QuietPage == TabSpec => []QuietPageIsOfTheUrl
<1>1. QuietInv => QuietPageIsOfTheUrl
  BY QuietIsLoaded DEF QuietPageIsOfTheUrl, LoadedOf
<1> QED
  BY <1>1, QuietAlways, PTL

(* Then the star is on the pick, however fast the picks were made. *)
THEOREM QuietStar == TabSpec => []QuietStarIsThePick
<1>1. QuietInv => QuietStarIsThePick
  <2> SUFFICES ASSUME QuietInv, Quiet, url.page = "browse"
               PROVE  StarsThePick(overrides, page.listing)
    BY DEF QuietStarIsThePick, StarsThePick
  <2>1. AreCalls(calls) /\ StarInv /\ orderly /\ calls = <<>>
    BY DEF QuietInv, TabInv, RequestsInv, Quiet
  <2>2. Len(calls) = 0 /\ DOMAIN calls = {}
    BY <2>1, CallsShape
  <2> QED
    BY <2>1, <2>2 DEF StarInv
<1> QED
  BY <1>1, QuietAlways, PTL

(* The shapes of the tab and of the server behind it. *)
THEOREM TabTypes == TabSpec => []TabTypeOK
<1>1. QuietInv => TabTypeOK
  <2> SUFFICES ASSUME QuietInv
               PROVE  TabTypeOK
    OBVIOUS
  <2>1. /\ RequestsInv /\ PageInv /\ OrderlyInv /\ BoundsInv
        /\ LibrariesInv /\ NamesInv /\ DiskInv /\ CountsInv
        /\ KeysInv /\ RowsInv
    BY DEF QuietInv, TabInv, TableInv, KeptInv
  <2>2. \A i \in DOMAIN calls : calls[i].phase \in {"sent", "checked", "answered"}
    BY <2>1, CallsShape DEF RequestsInv
  <2>3. \A r \in rows : r.lib \in LibraryName /\ r.parent \in Directory
    BY <2>1 DEF NamesInv, RowsInv
  <2>4. Len(calls) <= MaxCalls
    BY <2>1 DEF BoundsInv
  <2>5. TypeOK
    BY <2>1, <2>2, <2>3, <2>4
       DEF TypeOK, LibrariesInv, NamesInv, DiskInv, CountsInv, KeysInv
  <2> QED
    BY <2>1, <2>5 DEF TabTypeOK, PageInv, OrderlyInv, BoundsInv
<1> QED
  BY <1>1, QuietAlways, PTL
================================================================================
