------------------------------- MODULE Frontend -------------------------------
(***************************************************************************)
(* One browser tab running the Elm frontend (src/frontend) against the     *)
(* server of Catalogue: the URL, the page on show (Main.elm and the modules *)
(* of Page/) and the requests the pages send, which are the calls under    *)
(* way.  Answers come back in any order, and the tab may be navigated at   *)
(* any time (links, the back button, the address bar).                     *)
(*                                                                         *)
(* A message goes to the page on show, whichever request it answers: Elm's *)
(* messages carry no identity.  Main drops those of another kind of page.  *)
(* The texts typed into search boxes, the expanded sets and what the media *)
(* element reports are left out.                                           *)
(***************************************************************************)
EXTENDS Catalogue

CONSTANTS
  Routes,     \* the URLs the tab may visit, as parsed by Route.elm
  MaxVisits,  \* bound on changes of the URL
  MaxPicks    \* bound on main titles picked

\* Route.elm's Route, a path being split into its parent and file name.
Route ==
  [page : {"home"}]
    \cup [page : {"browse"}, library : LibraryName, dir : Directory, number : Nat]
    \cup [page : {"player"}, library : LibraryName,
          path : [parent : Directory, name : VideoName]]
    \cup [page : {"search"}, scope : {<<>>} \cup {<<l>> : l \in LibraryName}]

ASSUME FrontendAssumption ==
  /\ Routes \subseteq Route
  /\ MaxCalls > 0  \* the first page asks for the libraries
  /\ MaxVisits \in Nat /\ MaxPicks \in Nat

VARIABLES
  url,      \* the route in the address bar
  page,     \* Main.Model.page
  visits,   \* how often the URL has changed
  picks,    \* how many main titles were picked
  orderly   \* no answer has overtaken another or been an error, and the tab
            \* was never navigated with requests under way

tab == <<url, page, visits, picks, orderly>>

-------------------------------------------------------------------------------
(***************************************************************************)
(* Page.init: what each route first shows and asks for.                    *)
(***************************************************************************)
BrowseRequest(library, dir) ==
  [op |-> "browse", library |-> <<library>>, dir |-> dir]

ItemRequest(library, path) ==
  [op |-> "item", library |-> <<library>>, path |-> path]

Loading(route) == [route |-> route, state |-> "loading"]
Failed(route) == [route |-> route, state |-> "failed"]
LoadedListing(listing, number) ==
  [route |-> [page |-> "browse"], state |-> "loaded", listing |-> listing,
   number |-> number]
LoadedItem(item) ==
  [route |-> [page |-> "player"], state |-> "loaded", item |-> item]
LoadedResults(route, results) ==
  [route |-> route, state |-> "loaded", results |-> results]

RequestOf(route) ==
  CASE route.page = "browse" -> << BrowseRequest(route.library, route.dir) >>
    [] route.page = "player" -> << ItemRequest(route.library, route.path) >>
    [] route.page = "search" -> << [op |-> "search", library |-> route.scope] >>
    [] route.page = "home"   -> << [op |-> "libraries"] >>

(***************************************************************************)
(* Main.update on UrlChanged.                                              *)
(***************************************************************************)
CallsOf(requests) == [i \in DOMAIN requests |-> Call(requests[i])]

Location(library, dir) == [library |-> library, dir |-> dir]
Nowhere == Location("", <<>>)

\* Browse.currentLocation.
currentLocation(model) ==
  CASE model.state = "loading" -> Location(model.route.library, model.route.dir)
    [] model.state = "loaded"  -> Location(model.listing.library,
                                           model.listing.path)
    [] model.state = "failed"  -> Nowhere

\* Browse.updateParams: another page of the same directory.
updateParams(model, number) ==
  IF model.state = "loading" THEN [model EXCEPT !.route.number = number]
  ELSE IF model.state = "loaded" THEN [model EXCEPT !.number = number]
  ELSE model

AnyDirectory(route) ==  \* mutant: the locations not compared
  route.page = "browse" /\ page.route.page = "browse"

SameDirectory(route) ==
  /\ route.page = "browse"
  /\ page.route.page = "browse"
  /\ currentLocation(page) = Location(route.library, route.dir)

UrlChanged(route) ==
  /\ visits < MaxVisits
  /\ visits' = visits + 1
  /\ url' = route
  /\ IF SameDirectory(route)
       THEN /\ page' = updateParams(page, route.number)
            /\ UNCHANGED calls
       ELSE /\ Len(calls) + Len(RequestOf(route)) <= MaxCalls
            /\ page' = Loading(route)
            /\ calls' = calls \o CallsOf(RequestOf(route))

Unchanged == UNCHANGED <<disk, changes, starts, libraries, tables, reading>>

\* A link, the back button, the address bar.
Navigate(route) ==
  /\ UrlChanged(route)
  /\ orderly' = (orderly /\ calls = <<>>)
  /\ UNCHANGED picks
  /\ Unchanged

\* GoToPage shows the page and pushes its URL, that of the listing on show.
GoToPage(number) ==
  /\ page.route.page = "browse" /\ page.state = "loaded"
  /\ page.number # number
  /\ visits < MaxVisits
  /\ visits' = visits + 1
  /\ url' = [page |-> "browse", library |-> page.listing.library,
             dir |-> page.listing.path, number |-> number]
  /\ page' = [page EXCEPT !.number = number]
  /\ UNCHANGED <<picks, orderly, calls>>
  /\ Unchanged

-------------------------------------------------------------------------------
(***************************************************************************)
(* Picking a main title: the "Set as main" buttons of an expanded set.     *)
(***************************************************************************)
PickMain(entry, row) ==
  /\ page.route.page = "browse" /\ page.state = "loaded"
  /\ entry \in page.listing.entries
  /\ entry.type = "disc_set"
  /\ row \in entry.titles \ {entry.main}
  /\ picks < MaxPicks
  /\ Len(calls) < MaxCalls
  /\ picks' = picks + 1
  /\ calls' = Append(calls,
                Call([op |-> "set_main", library |-> <<page.listing.library>>,
                      disc_set |-> entry.disc_set, path |-> PathOf(row)]))
  /\ UNCHANGED <<url, page, visits, orderly>>
  /\ Unchanged

-------------------------------------------------------------------------------
(***************************************************************************)
(* Answers, as the update functions of the pages take them.                *)
(***************************************************************************)
Ok(answer) == answer.status = 200

ErrorsDropped(answer) ==  \* mutant: GotListing (Err _) leaves the model
  IF page.route.page # "browse" \/ ~ Ok(answer) THEN page
  ELSE IF page.state = "loading"
    THEN LoadedListing(answer.body, page.route.number)
  ELSE IF page.state = "loaded" THEN [page EXCEPT !.listing = answer.body]
  ELSE page

GotListing(answer) ==
  IF page.route.page # "browse" THEN page
  ELSE IF ~ Ok(answer) THEN Failed([page |-> "browse"])
  ELSE IF page.state = "loading"
    THEN LoadedListing(answer.body, page.route.number)
  ELSE IF page.state = "loaded" THEN [page EXCEPT !.listing = answer.body]
  ELSE page

\* Player.fallbackItem: what the page was asked for, while it still knows.
fallbackItem ==
  IF page.state = "loading"
    THEN [library |-> page.route.library, path |-> page.route.path]
    ELSE [library |-> "", path |-> <<>>]

ItemOnAnyPage(answer) ==  \* mutant: Main drops no message
  IF Ok(answer) THEN LoadedItem(answer.body) ELSE page

GotItem(answer) ==
  IF page.route.page # "player" THEN page
  ELSE LoadedItem(IF Ok(answer) THEN answer.body ELSE fallbackItem)

\* Search's GotResults and Home's GotLibraries.
GotResults(answer, kind) ==
  IF page.route.page # kind THEN page
  ELSE IF Ok(answer) THEN LoadedResults(page.route, answer.body)
  ELSE Failed(page.route)

NoRefetch(answer) == <<>>  \* mutant: MainPicked does nothing

\* A pick that went through has the listing on show fetched again.
Refetch(answer) ==
  IF page.route.page = "browse" /\ page.state = "loaded" /\ Ok(answer)
    THEN << BrowseRequest(page.listing.library, page.listing.path) >>
    ELSE <<>>

Deliver(i) ==
  LET op == calls[i].request.op
      answer == calls[i].answer
      rest == RemoveAt(calls, i)
  IN  /\ calls[i].phase = "answered"
      /\ orderly' = (orderly /\ i = 1 /\ Ok(answer))
      /\ page' = CASE op = "browse"   -> GotListing(answer)
                   [] op = "item"     -> GotItem(answer)
                   [] op = "search"   -> GotResults(answer, "search")
                   [] op = "libraries" -> GotResults(answer, "home")
                   [] op = "set_main" -> page
      /\ calls' = IF op = "set_main" THEN rest \o CallsOf(Refetch(answer))
                  ELSE rest
      /\ UNCHANGED <<url, visits, picks>>
      /\ Unchanged

-------------------------------------------------------------------------------
Home == [page |-> "home"]

TabInit ==
  /\ ServerInit
  /\ calls = CallsOf(RequestOf(Home))
  /\ url = Home
  /\ page = Loading(Home)
  /\ visits = 0
  /\ picks = 0
  /\ orderly = TRUE

TabNext ==
  \/ Backend /\ UNCHANGED tab
  \/ \E route \in Routes : Navigate(route)
  \/ \E route \in Routes : route.page = "browse" /\ GoToPage(route.number)
  \/ /\ page.route.page = "browse" /\ page.state = "loaded"
     /\ \E entry \in page.listing.entries :
          /\ entry.type = "disc_set"
          /\ \E row \in entry.titles : PickMain(entry, row)
  \/ \E i \in DOMAIN calls : Deliver(i)

TabSpec == TabInit /\ [][TabNext]_<<vars, tab>>

-------------------------------------------------------------------------------
(***************************************************************************)
(* Properties.                                                             *)
(***************************************************************************)
\* Every variable of the tab keeps its shape; the page is one that some route
\* shows.
TabTypeOK ==
  /\ TypeOK
  /\ url.page \in {"home", "browse", "player", "search"}
  /\ page.route.page = url.page
  /\ page.state \in {"loading", "loaded", "failed"}
  /\ visits \in 0..MaxVisits
  /\ picks \in 0..MaxPicks
  /\ orderly \in BOOLEAN

\* A page that says it is loading has the request of its own route under way:
\* no order of answers, and no answer to a request of an earlier page, leaves
\* it waiting for nothing.
LoadingIsAwaited ==
  page.state = "loading" =>
    \E i \in DOMAIN calls : <<calls[i].request>> = RequestOf(page.route)

Quiet == orderly /\ calls = <<>>

\* When every answer came, in order, to a tab that waited for it, the page
\* shows what its URL names.
QuietPageIsOfTheUrl ==
  Quiet =>
    CASE url.page = "browse" -> /\ page.listing.library = url.library
                                /\ page.listing.path = url.dir
                                /\ page.number = url.number
      [] url.page = "player" -> /\ page.item.library = url.library
                                /\ page.item.path = url.path
      [] OTHER -> page.route = url

\* Then, too, the star is on the title the server has stored as the pick, though
\* picks may have been made faster than they were answered.  It need not be the
\* one clicked last: the server stores what it handles last.
QuietStarIsThePick ==
  Quiet /\ url.page = "browse" =>
    \A e \in page.listing.entries :
      e.type = "disc_set" =>
        LET key == PickOf(page.listing.library, e.disc_set)
        IN  key \in DOMAIN overrides =>
              \A r \in e.titles : PathOf(r) = overrides[key] => e.main = r

(***************************************************************************)
(* The server answers what it is asked and the answers arrive: hyper runs  *)
(* a task for each connection, and a browser reports a lost connection.    *)
(* Nothing else need ever happen.                                          *)
(***************************************************************************)
Answered == \E i \in DOMAIN calls : Handle(i) /\ UNCHANGED tab
Delivered == \E i \in DOMAIN calls : Deliver(i)

FairTabSpec ==
  TabSpec /\ WF_<<vars, tab>>(Answered) /\ WF_<<vars, tab>>(Delivered)

\* No page loads for ever, whatever is lost, refused or overtaken.
LoadingEnds == page.state = "loading" ~> page.state # "loading"
===============================================================================
