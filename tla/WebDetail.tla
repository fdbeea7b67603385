-------------------------------- MODULE WebDetail --------------------------------
(***************************************************************************)
(* What the user does on the pages of WebPages: the home page with its     *)
(* list, the choice of a type, and the detail page with its view, its form *)
(* and its dialogs.  A tun entrypoint needs the one VPN device of the      *)
(* Android application, which is armed before it is saved or started       *)
(* (utils/vpn.ts).                                                         *)
(***************************************************************************)
EXTENDS WebPages

Mine == pg.at = "detail"
Stay == UNCHANGED <<class, server, list, loading, polling>>

---------------------------------------------------------------------------
(* What the pages offer.  A dialog covers the page it belongs to.          *)

AppBarOffers(p) ==
  IF p.mode = "view" /\ p.cur.has
  THEN {IF Find(list, p.id) # <<>> /\ Find(list, p.id)[1].running THEN "stop" ELSE "start"}
  ELSE IF p.saving THEN {} ELSE {"save"}
ViewOffers(p) ==
  IF p.mode # "view" \/ ~p.cur.has THEN {}
  ELSE {"edit", "events", "reset"} \union When(class.kind = "tunnel" /\ IsP2P(class), {"peers"})
       \union When(HoldsDevice(class), {"peers"}) \union When(class.kind = "tunnel" /\ class.type \in {"http", "file"}, {"inspector"})
EditOffers(p) ==
  IF p.mode = "view" THEN {} ELSE When(p.mode = "edit", {"delete"}) \union Inputs(class)
DialogOffers(p) == IF p.dialog = "none" THEN {} ELSE {"cancel", "confirm"}
Offered(what) ==
  /\ Mine
  /\ what \in IF pg.dialog # "none" THEN DialogOffers(pg)
              ELSE {"back"} \union AppBarOffers(pg) \union ViewOffers(pg) \union EditOffers(pg)

\* the card of an item, opened, on the home page
CardOffers(row) == {"open", "edit", "delete", IF row.running THEN "stop" ELSE "start"}
HomeOffers(id, what) ==
  /\ pg.at = "home" /\ pg.dialog = "none" /\ ~loading
  /\ Find(list, id) # <<>> /\ what \in CardOffers(Find(list, id)[1])

---------------------------------------------------------------------------
(* Starting, and the VPN device.                                           *)

\* tunDeviceHolder: whom the device belongs to, as far as the list tells
DeviceHolder(except) == {i \in DOMAIN list : list[i].running /\ list[i].id # except}
DeviceFree(except) == HoldsDevice(class) => DeviceHolder(except) = {}

\* armVpn, for a start or a save of an item
Arm(id, next) == Send(calls, [Call("arm", id, next) EXCEPT !.mine = next = "save"])

Started(id) ==
  /\ Act /\ DeviceFree(id)
  /\ IF HoldsDevice(class) THEN Arm(id, "start") ELSE Send(calls, Call("start", id, "none"))
  /\ Stay /\ UNCHANGED pg
Stopped(id) == Act /\ Send(calls, Call("stop", id, "none")) /\ Stay /\ UNCHANGED pg

\* the request of a save; e: the page, or what is left of it
SaveSent(cs, e, mine) ==
  LET op == IF e.mode = "create" THEN "create" ELSE "update"
      c == [Call(op, e.id, "none") EXCEPT !.mine = mine, !.typed = e.typed, !.base = e.cur.opts,
              !.body = Body(class, e.form, e.cur.opts, e.mode = "edit")]
  IN  Send(cs, c) /\ pg' = IF mine THEN [pg EXCEPT !.saving = TRUE] ELSE pg

\* the bridge answered, or there is none; a save reads the form as it is by now
Armed(c) ==
  /\ c.op = "arm"
  /\ IF c.next = "start"
     THEN Send(calls \ {c}, Call("start", c.id, "none")) /\ UNCHANGED pg
     ELSE SaveSent(calls \ {c}, IF c.mine THEN pg ELSE c.elem, c.mine)
  /\ Stay /\ UNCHANGED acts
Declined(c) ==
  /\ c.op = "arm" /\ calls' = calls \ {c} /\ Stay /\ UNCHANGED <<pg, acts>>

---------------------------------------------------------------------------
(* The home page, and the choice of a type.                                *)

HomeStart(id) == HomeOffers(id, "start") /\ Started(id)
HomeStop(id) == HomeOffers(id, "stop") /\ Stopped(id)
ConfirmDelete(id) ==
  /\ HomeOffers(id, "delete") /\ pg' = [pg EXCEPT !.dialog = "delete", !.id = id]
  /\ Stay /\ UNCHANGED <<calls, acts>>
HomeDelete ==
  /\ pg.at = "home" /\ pg.dialog = "delete" /\ Act
  /\ Send(calls, Call("remove", pg.id, "home")) /\ pg' = [pg EXCEPT !.dialog = "none", !.id = 0]
  /\ Stay
HomeCancel ==
  /\ pg.at = "home" /\ pg.dialog = "delete" /\ pg' = [pg EXCEPT !.dialog = "none", !.id = 0]
  /\ Stay /\ UNCHANGED <<calls, acts>>
OpenItem(id, what) ==
  /\ HomeOffers(id, what) /\ what \in {"open", "edit"}
  /\ Stay /\ Navigate(calls, "detail", id, what = "edit") /\ UNCHANGED acts
OpenTypes == pg.at = "home" /\ pg.dialog = "none" /\ Stay /\ Navigate(calls, "types", 0, FALSE) /\ UNCHANGED acts
ChooseType == pg.at = "types" /\ Stay /\ Navigate(calls, "detail", 0, FALSE) /\ UNCHANGED acts
LeaveTypes == pg.at = "types" /\ Stay /\ Navigate(calls, "home", 0, FALSE) /\ UNCHANGED acts

---------------------------------------------------------------------------
(* The detail page.                                                        *)

EnterEdit ==
  /\ Offered("edit")
  /\ pg' = [pg EXCEPT !.mode = "edit", !.form = PopulateForm(class, pg.cur.opts), !.typed = {}]
  /\ Stay /\ UNCHANGED <<calls, acts>>

Type(f, v) ==
  /\ f \in TypedFields /\ Offered(f) /\ Act
  /\ pg' = [pg EXCEPT !.form[f] = v, !.typed = @ \union {f}]
  /\ Stay /\ UNCHANGED calls

\* the page of the item again, without ?edit, or the list
HandleBack ==
  /\ Offered("back") /\ Stay /\ UNCHANGED acts
  /\ IF pg.mode = "edit" THEN pg' = [pg EXCEPT !.mode = "view", !.url = FALSE] /\ UNCHANGED calls
     ELSE Navigate(calls, "home", 0, FALSE)

HandleSave ==
  /\ Offered("save") /\ pg.mode # "view" /\ Complete(class, pg.form) /\ DeviceFree(pg.id) /\ Act
  /\ IF HoldsDevice(class) THEN Arm(pg.id, "save") /\ UNCHANGED pg ELSE SaveSent(calls, pg, TRUE)
  /\ Stay

HandleStart == Offered("start") /\ Started(pg.id)
HandleStop == Offered("stop") /\ Stopped(pg.id)

AskDialog(what) ==
  /\ what \in {"delete", "reset"} /\ Offered(what) /\ pg' = [pg EXCEPT !.dialog = what]
  /\ Stay /\ UNCHANGED <<calls, acts>>
Cancel == Offered("cancel") /\ pg' = [pg EXCEPT !.dialog = "none"] /\ Stay /\ UNCHANGED <<calls, acts>>
HandleDelete ==
  /\ Offered("confirm") /\ pg.dialog = "delete" /\ Act
  /\ Send(calls, Call("remove", pg.id, "detail")) /\ pg' = [pg EXCEPT !.dialog = "none"] /\ Stay
DoResetStats ==
  /\ Offered("confirm") /\ pg.dialog = "reset" /\ Act
  /\ Send(calls, Call("reset", pg.id, "none")) /\ pg' = [pg EXCEPT !.dialog = "none"] /\ Stay

\* the peers, the history and the inspector are pages of their own
OpenSubpage(what) ==
  /\ what \in {"peers", "events", "inspector"} /\ Offered(what)
  /\ Stay /\ Navigate(calls, "away", pg.id, FALSE) /\ UNCHANGED acts
LeaveSubpage ==
  /\ pg.at = "away" /\ Stay /\ Navigate(calls, "detail", pg.id, FALSE) /\ UNCHANGED acts

---------------------------------------------------------------------------
\* the page that is loaded first is any; an item that has just been stored
Stored(there, running) == Item(there, running, [f \in Options(class) |-> 1])
PagesInit ==
  /\ class \in Classes
  /\ server = [id \in Ids |-> Stored(IF id = 1 THEN "yes" ELSE "unborn", id = 1)]
  /\ list = <<>> /\ loading = FALSE /\ polling = FALSE /\ acts = 0
  /\ calls = {[n |-> 1, op |-> "config", id |-> 0, next |-> "none", at |-> "wire", mine |-> FALSE, body |-> <<>>,
               typed |-> {}, base |-> <<>>, ans |-> <<>>, elem |-> NoPage]}
  /\ pg \in {Page("home", 0, FALSE), Page("detail", 1, TRUE)}

Returns(c) ==
  \/ ConfigLoaded(c) \/ ListReturns(c) \/ CreateReturns(c) \/ UpdateReturns(c) \/ RemoveReturns(c)
  \/ ActReturns(c) \/ StatsReturns(c) \/ Armed(c)
GivesUp(c) == ListFails(c) \/ CallFails(c) \/ Declined(c) \/ Lost(c)
CallStep(c) == Serve(c) \/ ServeFails(c) \/ Returns(c) \/ GivesUp(c)

OnItem(id) ==
  \/ HomeStart(id) \/ HomeStop(id) \/ ConfirmDelete(id)
  \/ \E what \in {"open", "edit"} : OpenItem(id, what)
OnPage ==
  \/ EnterEdit \/ HandleBack \/ HandleSave \/ HandleStart \/ HandleStop \/ HandleDelete \/ DoResetStats
  \/ Cancel \/ LeaveSubpage \/ \E f \in TypedFields : \E v \in TypedValues(f) : Type(f, v)
  \/ \E what \in {"delete", "reset"} : AskDialog(what)
  \/ \E what \in {"peers", "events", "inspector"} : OpenSubpage(what)

PagesNext ==
  \/ \E c \in calls : CallStep(c)
  \/ \E id \in Ids : OnItem(id)
  \/ OnPage \/ HomeDelete \/ HomeCancel \/ OpenTypes \/ ChooseType \/ LeaveTypes
  \/ Refetch \/ Poll \/ OtherClient

\* every request is answered, refused or given up, and what it asked for is awaited
PagesFairness == WF_pages(\E c \in calls : Returns(c) \/ GivesUp(c))

PagesSpec == PagesInit /\ [][PagesNext]_pages /\ PagesFairness

---------------------------------------------------------------------------
(* Properties.                                                             *)

(* What the user has typed into a form stays there until the user leaves    *)
(* the editor or the save is through: no answer, poll or change of another  *)
(* client overwrites it (tunnel-detail-page.ts and entrypoint-detail-page.ts,*)
(* _load: the guards against store updates).                                *)
Typing(p) == p.at = "detail" /\ p.mode # "view" /\ p.typed # {}
DraftKept ==
  [][Typing(pg) /\ pg'.at = "detail" /\ ~(\E f \in TypedFields : \E v \in TypedValues(f) : Type(f, v))
       => \/ \A f \in pg.typed : pg'.form[f] = pg.form[f]
          \/ pg.mode = "edit" /\ (HandleBack \/ \E c \in calls : UpdateReturns(c) /\ c.mine)]_pages

(* A save changes what was typed and nothing else: an option that was not   *)
(* typed is what it was, if nobody else has changed it since the form was   *)
(* opened, whether the form shows it or not (tunnel-detail-page.ts          *)
(* _handleSave: the API replaces the whole configuration on a PUT).         *)
Untyped(c) == {f \in Options(class) \ c.typed : f = "password" \/ c.base[f] = server[c.id].opts[f]}
SaveKeepsUntyped ==
  [][\A c \in calls : c.op = "update" /\ Serve(c) =>
       \A f \in Untyped(c) : server'[c.id].opts[f] = server[c.id].opts[f]]_pages

(* The interface starts to poll however its first requests end, and the     *)
(* spinner that hides the list never stays (app.ts firstUpdated; refresh in *)
(* the stores: never leave loading pinned).                                 *)
SpinnerEnds == []<>polling /\ []<>~loading
=============================================================================
