------------------------------- MODULE Board -------------------------------
(***************************************************************************)
(* One operator's browser window on the board: the ticket it shows and the *)
(* draft the operator types into, the configuration form, and the requests *)
(* the page has in flight while other operators and agents change the same *)
(* items on the tracker.                                                   *)
(*                                                                         *)
(* A request is a flight: the tracker reads or writes at one step and the  *)
(* reply arrives at a later one, in any order with other replies.  A       *)
(* refresh is the closure of a render: it carries the ticket and the       *)
(* "dirty" flag of the render that started it.  Events of the stream tell  *)
(* of every change on the tracker, and a timer polls: a refresh may start  *)
(* at any time; its lists, of which the configuration matters here, and    *)
(* its ticket are two flights.  The operator may open a ticket at any      *)
(* time: the address, which only starts loads, is left out.                *)
(*                                                                         *)
(* The text of an item is the set of changes people made to it, each       *)
(* marked with the item it was typed for.  Every ticket is a valid one,    *)
(* pending or not as others please: the page offers the pending editor or  *)
(* the live ones, of the description and of a comment or guidance, which   *)
(* take the ticket they write to from the page at the click.  Answers to   *)
(* questions, kept by question, creating tickets, the files of a draft,    *)
(* the restart after a description, the attention page and the prompt and  *)
(* workflow editors are left out, as is a request that the tracker serves  *)
(* after the page gave it up.                                              *)
(***************************************************************************)
EXTENDS Integers, FiniteSets

CONSTANTS
    Tickets, Config,   \* what the tracker keeps: tickets, the configuration
    MaxEdits,          \* bound: changes, typed here or made elsewhere
    MaxClicks,         \* bound: commands sent
    MaxFlights,        \* bound: requests of the page at a time
    None

Items == Tickets \cup {Config}
Marks == Items \X (1..MaxEdits)

ASSUME BoundAssumption == MaxEdits \in Nat /\ MaxClicks \in Nat /\ MaxFlights \in Nat \ {0}
ASSUME NoneAssumption == None \notin Items /\ Config \notin Tickets

VARIABLES
    server,         \* the items on the tracker
    shown,          \* the ticket selected, as of some reply
    draft, dirty,   \* what is typed for a pending ticket, and that something was
    live,           \* the live editors that are open
    form,           \* the configuration as of some reply, and as typed
    busy,           \* the buttons that look at it are disabled
    flights,        \* requests
    edits, clicks,
    strayed         \* history: live text sent off while another ticket was shown

vars == <<server, shown, draft, dirty, live, form, busy, flights, edits, clicks, strayed>>
page == <<shown, draft, dirty, live>>
history == <<edits, clicks, strayed>>

Doc == [rev : Nat, text : SUBSET Marks]
Live == {"description", "comment"}
Commands == {"run", "save", "config"} \cup Live
Flight == [op : {"refresh", "load"} \cup Commands, click : 0..MaxClicks,
           at : {"sent", "done", "refused", "get", "got"},
           id : Items, of : Tickets \cup {None},
           dirty : BOOLEAN, doc : Doc, since : 0..MaxEdits]

Blank == [rev |-> 1, text |-> {}]
Request == [op |-> "refresh", click |-> 0, at |-> "get", id |-> Config, of |-> None,
            dirty |-> FALSE, doc |-> Blank, since |-> 0]
NoTicket == [id |-> None, doc |-> Blank]
Closed == [of |-> None, text |-> {}]

Init == /\ server = [i \in Items |-> Blank]
        /\ shown = NoTicket
        /\ draft = [of |-> None, text |-> {}] /\ dirty = FALSE
        /\ live = [k \in Live |-> Closed]
        /\ form = [doc |-> Blank, text |-> {}]
        /\ busy = FALSE /\ flights = {} /\ edits = 0 /\ clicks = 0 /\ strayed = {}

Launch(f) == flights' = flights \cup {f} /\ Cardinality(flights') <= MaxFlights
Becomes(f, g) == flights' = (flights \ {f}) \cup {g}

(* Whatever way a command ends, it gives the buttons back.                 *)
Ends(f) == flights' = flights \ {f} /\ busy' = (busy /\ f.op \notin Commands)

DraftFrom(id, doc) == [of |-> id, text |-> doc.text]
Without(closed) == [k \in Live |-> IF k \in closed THEN Closed ELSE live[k]]

(* Fault: what was typed stays.                                            *)
ApplyConfigBelow(doc) == form' = [doc |-> doc, text |-> IF form.text = form.doc.text
                                                        THEN doc.text ELSE form.text]

(* A configuration of another revision replaces what was typed.            *)
ApplyConfig(doc) == form' = [doc |-> doc, text |-> IF doc.rev = form.doc.rev
                                                   THEN form.text ELSE doc.text]

-----------------------------------------------------------------------------
(***************************************************************************)
(* What the operator does.                                                 *)
(***************************************************************************)

Open(t) == /\ Launch([Request EXCEPT !.op = "load", !.id = t])
           /\ UNCHANGED <<server, page, form, busy, history>>

ShowQueue == /\ shown.id # None /\ shown' = NoTicket
             /\ UNCHANGED <<server, draft, dirty, live, form, busy, flights, history>>

Type == /\ edits < MaxEdits /\ shown.id # None
        /\ edits' = edits + 1
        /\ draft' = [draft EXCEPT !.text = @ \cup {<<draft.of, edits + 1>>}]
        /\ dirty' = TRUE
        /\ UNCHANGED <<server, shown, live, form, busy, flights, clicks, strayed>>

Cancel == /\ shown.id # None /\ dirty
          /\ draft' = DraftFrom(shown.id, shown.doc) /\ dirty' = FALSE
          /\ UNCHANGED <<server, shown, live, form, busy, flights, history>>

(* A live editor opens on the ticket shown, and stays open.                *)
Opened(k) == IF live[k].of # None THEN live[k]
             ELSE [of |-> shown.id, text |-> IF k = "description" THEN shown.doc.text ELSE {}]

TypeLive(k) == /\ edits < MaxEdits /\ shown.id # None
               /\ edits' = edits + 1
               /\ live' = [live EXCEPT ![k] = [Opened(k) EXCEPT
                             !.text = @ \cup {<<Opened(k).of, edits + 1>>}]]
               /\ UNCHANGED <<server, shown, draft, dirty, form, busy, flights, clicks, strayed>>

CancelLive(k) == /\ shown.id # None /\ live[k].of # None /\ live' = Without({k})
                 /\ UNCHANGED <<server, shown, draft, dirty, form, busy, flights, history>>

TypeConfig == /\ edits < MaxEdits
              /\ edits' = edits + 1
              /\ form' = [form EXCEPT !.text = @ \cup {<<Config, edits + 1>>}]
              /\ UNCHANGED <<server, page, busy, flights, clicks, strayed>>

Click(f) == /\ clicks < MaxClicks /\ clicks' = clicks + 1
            /\ Launch([f EXCEPT !.click = clicks', !.at = "sent", !.dirty = dirty])
            /\ busy' = TRUE
            /\ UNCHANGED <<server, page, form, edits>>

Save == /\ shown.id # None /\ ~busy
        /\ UNCHANGED strayed
        /\ Click([Request EXCEPT !.op = "save", !.id = shown.id, !.of = draft.of,
                                 !.since = edits,
                                 !.doc = [rev |-> shown.doc.rev, text |-> draft.text]])

(* Many of the buttons that send a command do not look at "busy".          *)
Run == /\ shown.id # None /\ UNCHANGED strayed
       /\ Click([Request EXCEPT !.op = "run", !.id = shown.id, !.doc = shown.doc])

SendLive(k) ==
    /\ shown.id # None /\ ~busy /\ live[k].of # None
    /\ strayed' = strayed \cup {m \in live[k].text : m[1] # shown.id}
    /\ Click([Request EXCEPT !.op = k, !.id = shown.id, !.since = edits,
                             !.doc = [rev |-> shown.doc.rev, text |-> live[k].text]])

SaveConfig == /\ ~busy /\ UNCHANGED strayed
              /\ Click([Request EXCEPT !.op = "config",
                                       !.doc = [rev |-> form.doc.rev, text |-> form.text]])

-----------------------------------------------------------------------------
(***************************************************************************)
(* The tracker: commands of the window, and what others do.                *)
(***************************************************************************)

(* Fault: the revision is not compared.                                    *)
FencedNot(f) == f.doc.rev <= server[f.id].rev

(* A command names the revision its screen showed.                         *)
Fenced(f) == f.doc.rev = server[f.id].rev

(* Fault: duplicates are not looked for.                                   *)
FitsAny(f) == f.op = "save" => f.of # None

(* A saved text names its ticket: another ticket's is a duplicate.         *)
Fits(f) == f.op = "save" => f.of = f.id

(* A comment adds to the ticket; a description or a file replaces it.      *)
Written(f) == IF f.op = "run" THEN server[f.id].text
              ELSE IF f.op = "comment" THEN server[f.id].text \cup f.doc.text ELSE f.doc.text

Change(i, text) == server' = [server EXCEPT ![i] = [rev |-> @.rev + 1, text |-> text]]

Serve(f) ==
    /\ f.at = "sent"
    /\ \/ /\ Fenced(f) /\ Fits(f)
          /\ Change(f.id, Written(f))
          /\ Becomes(f, [f EXCEPT !.at = "done", !.doc = server'[f.id], !.of = None,
                                  !.since = 0])
       \/ /\ ~(Fenced(f) /\ Fits(f))
          /\ Becomes(f, [Request EXCEPT !.op = f.op, !.click = f.click, !.at = "refused"])
          /\ UNCHANGED server
    /\ UNCHANGED <<page, form, busy, history>>

(* Other operators, and agents: whatever they do to an item is a change.   *)
OthersEdit(i) == /\ edits < MaxEdits /\ edits' = edits + 1
                 /\ Change(i, server[i].text \cup {<<i, edits + 1>>})
                 /\ UNCHANGED <<page, form, busy, flights, clicks, strayed>>

-----------------------------------------------------------------------------
(***************************************************************************)
(* Replies.                                                                *)
(***************************************************************************)

(* A command's reply is shown, and a refresh of the render that sent it    *)
(* follows; a description stays open until that has come.                  *)
Answer(f) ==
    \/ /\ f.op \in {"run", "save"} \cup Live /\ f.at = "done"
       /\ shown' = [id |-> f.id, doc |-> f.doc] /\ draft' = DraftFrom(f.id, f.doc)
       /\ dirty' = FALSE /\ live' = Without({"comment"})
       /\ Becomes(f, [f EXCEPT !.at = "get", !.doc = Blank])
       /\ UNCHANGED <<server, form, busy, history>>
    \/ /\ f.op = "config" /\ f.at = "done"
       /\ ApplyConfig(f.doc) /\ Ends(f)
       /\ UNCHANGED <<server, page, history>>
    \/ /\ f.at = "refused" /\ Ends(f)
       /\ UNCHANGED <<server, page, form, history>>

(* An event of the stream, or the timer, which polls the configuration.   *)
Refresh == /\ \E id \in {Config, shown.id} \ {None} :
                Launch([Request EXCEPT !.id = id, !.dirty = dirty /\ id # Config])
           /\ UNCHANGED <<server, page, form, busy, history>>

Read(f) == /\ f.at = "get" /\ Becomes(f, [f EXCEPT !.at = "got", !.doc = server[f.id]])
           /\ UNCHANGED <<server, page, form, busy, history>>

(* A refresh keeps the draft when the render that started it was dirty; a  *)
(* load starts afresh.  Neither looks at what the window shows by now, and *)
(* a refresh leaves the live editors open.                                 *)
Keeps(f) == f.op # "load" /\ f.dirty

Got(f) ==
    /\ f.at = "got" /\ Ends(f)
    /\ \/ /\ f.id = Config /\ ApplyConfig(f.doc)
          /\ UNCHANGED page
       \/ /\ f.id # Config
          /\ shown' = [id |-> f.id, doc |-> f.doc]
          /\ draft' = IF Keeps(f) THEN draft ELSE DraftFrom(f.id, f.doc)
          /\ dirty' = (dirty /\ f.op # "load")
          /\ live' = Without(IF f.op = "load" THEN Live ELSE {f.op} \cap {"description"})
          /\ UNCHANGED form
    /\ UNCHANGED <<server, history>>

(* A request that fails or is given up after 30 seconds.                   *)
Lost(f) == /\ Ends(f)
           /\ IF f.op = "load" THEN shown' = NoTicket ELSE UNCHANGED shown
           /\ UNCHANGED <<server, draft, dirty, live, form, history>>

Proceed(f) == Serve(f) \/ Answer(f) \/ Read(f) \/ Got(f)

Next == \/ \E t \in Tickets : Open(t)
        \/ ShowQueue \/ Type \/ Cancel \/ TypeConfig
        \/ \E k \in Live : TypeLive(k) \/ CancelLive(k) \/ SendLive(k)
        \/ Save \/ Run \/ SaveConfig \/ Refresh
        \/ \E i \in Items : OthersEdit(i)
        \/ \E f \in flights : Proceed(f) \/ Lost(f)

(* The tracker answers, and the page goes on with the reply.               *)
Spec == /\ Init /\ [][Next]_vars
        /\ WF_vars(\E f \in flights : f.op \in Commands /\ Proceed(f))

-----------------------------------------------------------------------------
(***************************************************************************)
(* Properties.                                                             *)
(***************************************************************************)

TypeOK == /\ server \in [Items -> Doc]
          /\ shown \in [id : Tickets \cup {None}, doc : Doc]
          /\ draft \in [of : Tickets \cup {None}, text : SUBSET Marks] /\ dirty \in BOOLEAN
          /\ live \in [Live -> [of : Tickets \cup {None}, text : SUBSET Marks]]
          /\ form \in [doc : Doc, text : SUBSET Marks]
          /\ busy \in BOOLEAN /\ flights \subseteq Flight
          /\ edits \in 0..MaxEdits /\ clicks \in 0..MaxClicks /\ strayed \subseteq Marks

(* What was typed for one ticket is never written into another, whatever   *)
(* replies arrive after the operator has moved on: save what a live editor *)
(* held and sent off while a late reply had another ticket shown.          *)
DraftsApart == TypeOK /\ \A i \in Items : \A m \in server[i].text : m[1] = i \/ m \in strayed

(* App.tsx:2953: opening a ticket closes the live editors, which name no   *)
(* ticket: what is in them is for the one that was shown.                  *)
TextWhereTyped == \A i \in Items : \A m \in server[i].text : m[1] = i

(* A change others make to a ticket while its text is on its way survives: *)
(* only changes older than the click can be lost.                          *)
RacingEditsKept ==
    [][\A t \in Tickets : \A m \in server[t].text \ server'[t].text :
         \E f \in flights : f.op \in {"save", "description"} /\ m[2] <= f.since]_vars

(* The configuration form, which drops what was typed when the revision    *)
(* changes below it, never writes over a configuration nobody saw.         *)
ConfigKept == [][server[Config].text \subseteq server'[Config].text]_vars

(* init.md:848: "A concurrent edit produces a clean retry or 409, never a  *)
(* silent overwrite".                                                      *)
NoSilentOverwrite == [][\A t \in Tickets : server[t].text \subseteq server'[t].text]_vars
=============================================================================
