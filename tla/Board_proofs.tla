----------------------------- MODULE Board_proofs -----------------------------
(***************************************************************************)
(* Theorems about Board, for every set of tickets and every number of      *)
(* changes, commands and requests in flight.                               *)
(***************************************************************************)
EXTENDS Board, TLAPS

(***************************************************************************)
(* The inductive invariant.                                                *)
(***************************************************************************)

Own(i, text) == \A m \in text : m[1] = i \/ m \in strayed
Until(n, text) == \A m \in text : m[2] <= n
Reply(f) == f.at \in {"done", "got"}

(* What was typed is marked with the item it is kept for.                  *)
Owned == /\ \A i \in Items : Own(i, server[i].text)
         /\ shown.id # None => Own(shown.id, shown.doc.text) /\ draft.of # None
         /\ dirty => draft.of # None
         /\ Own(draft.of, draft.text)
         /\ Own(Config, form.doc.text) /\ Own(Config, form.text)

(* So is what is in the live editors.                                      *)
Spare == \A k \in Live : Own(live[k].of, live[k].text) /\ Until(edits, live[k].text)

(* No change is newer than the last; no copy is newer than the original.   *)
Dated == /\ \A i \in Items : Until(edits, server[i].text)
         /\ Until(edits, shown.doc.text) /\ Until(edits, draft.text)
         /\ Until(edits, form.doc.text) /\ Until(edits, form.text)
         /\ shown.id # None => shown.doc.rev <= server[shown.id].rev
         /\ form.doc.rev <= server[Config].rev

(* A request carries what belongs to its item, and one that the tracker    *)
(* would still accept was sent with all of the item in view.               *)
Sound(f) ==
    /\ f.at = "sent" => f.op \in Commands
    /\ Until(edits, f.doc.text)
    /\ f.op \in {"run", "save", "load"} \cup Live /\ f.at # "refused" => f.id \in Tickets
    /\ f.op = "config" => f.id = Config
    /\ f.dirty => draft.of # None
    /\ Reply(f) => Own(f.id, f.doc.text)
    /\ Reply(f) \/ f.at = "sent" => f.doc.rev <= server[f.id].rev
    /\ f.op = "save" /\ f.at = "sent" => Own(f.of, f.doc.text)
    /\ f.op \in Live /\ f.at = "sent" => Own(f.id, f.doc.text)
    /\ f.op \in {"save", "description"} /\ f.at = "sent" =>
         (f.doc.rev = server[f.id].rev => Until(f.since, server[f.id].text))
    /\ f.op = "config" /\ f.at = "sent" =>
         /\ Own(Config, f.doc.text)
         /\ f.doc.rev = server[Config].rev => server[Config].text \subseteq f.doc.text

(* A revision of the configuration is one text, wherever the copy is.      *)
Copies == {server[Config], form.doc}
          \cup {f.doc : f \in {g \in flights : g.id = Config /\ Reply(g)}}
OneText == /\ \A c, d \in Copies : c.rev = d.rev => c.text = d.text
           /\ form.doc.text \subseteq form.text

IInv == TypeOK /\ Owned /\ Spare /\ Dated /\ OneText /\ \A f \in flights : Sound(f)

-----------------------------------------------------------------------------
(***************************************************************************)
(* Types, and what a step leaves alone.                                    *)
(***************************************************************************)

LEMMA Typed ==
  ASSUME IInv
  PROVE  /\ server \in [Items -> Doc] /\ \A i \in Items : server[i] \in Doc /\ server[i].rev \in Nat
         /\ shown \in [id : Tickets \cup {None}, doc : Doc]
         /\ draft \in [of : Tickets \cup {None}, text : SUBSET Marks]
         /\ form \in [doc : Doc, text : SUBSET Marks]
         /\ live \in [Live -> [of : Tickets \cup {None}, text : SUBSET Marks]]
         /\ flights \subseteq Flight /\ edits \in Nat /\ edits <= MaxEdits /\ edits \in 0..MaxEdits
         /\ clicks \in Nat /\ None \notin Items /\ Config \in Items /\ Tickets \subseteq Items
         /\ Config \notin Tickets
  <1>1. server \in [Items -> Doc]
    BY DEF IInv, TypeOK
  <1>2. \A i \in Items : server[i] \in Doc /\ server[i].rev \in Nat
    BY <1>1 DEF Doc
  <1>3. edits \in Nat /\ edits <= MaxEdits /\ clicks \in Nat
    BY BoundAssumption DEF IInv, TypeOK
  <1>4. QED
    BY <1>1, <1>2, <1>3, NoneAssumption DEF IInv, TypeOK, Items

LEMMA RequestTyped ==
  /\ Blank \in Doc /\ Blank.text = {} /\ Blank.rev = 1 /\ NoTicket.id = None
  /\ NoTicket \in [id : Tickets \cup {None}, doc : Doc]
  /\ Request \in Flight /\ Request.at = "get" /\ Request.op = "refresh" /\ ~ Request.dirty
  /\ Request.id = Config /\ Request.doc = Blank /\ NoTicket.doc = Blank
  /\ \A n : Until(n, Blank.text)
  <1>1. Blank \in Doc /\ Blank.text = {} /\ Blank.rev = 1
    BY DEF Blank, Doc
  <1>2. 0 \in 0..MaxClicks /\ 0 \in 0..MaxEdits
    BY BoundAssumption
  <1>3. Request \in Flight
    BY <1>1, <1>2 DEF Request, Flight, Commands, Items
  <1>4. QED
    BY <1>1, <1>3 DEF Request, NoTicket, Until

LEMMA UntilGrows ==
  ASSUME NEW text \in SUBSET Marks, NEW m \in Nat, NEW n \in Nat, m <= n, Until(m, text)
  PROVE  Until(n, text)
  BY DEF Until, Marks

LEMMA UntilAdds ==
  ASSUME NEW text, NEW i, NEW n \in Nat, Until(n, text)
  PROVE  Until(n, text \cup {<<i, n>>})
  BY DEF Until

(* A live editor that is closed holds nothing; nobody has typed.           *)
LEMMA LiveStays ==
  ASSUME IInv, (UNCHANGED live) \/ \E closed : live' = Without(closed),
         strayed \subseteq strayed', edits <= edits', edits' \in Nat
  PROVE  live' \in [Live -> [of : Tickets \cup {None}, text : SUBSET Marks]] /\ Spare'
  <1>1. \A k \in Live : live[k] \in [of : Tickets \cup {None}, text : SUBSET Marks]
                        /\ Own(live[k].of, live[k].text) /\ Until(edits', live[k].text)
    BY Typed, UntilGrows DEF IInv, Spare
  <1>2. Closed \in [of : Tickets \cup {None}, text : SUBSET Marks] /\ Closed.text = {}
    BY DEF Closed
  <1>3. \A k \in Live : live'[k] \in {live[k], Closed}
    BY DEF Without
  <1>4. live' = [k \in Live |-> live'[k]]
    BY Typed DEF Without
  <1>5. \A k \in Live : live'[k] \in [of : Tickets \cup {None}, text : SUBSET Marks]
    BY <1>1, <1>2, <1>3
  <1>6. ASSUME NEW k \in Live PROVE (Own(live[k].of, live[k].text) /\ Until(edits, live[k].text))'
    <2>1. CASE live'[k] = live[k]
      BY <1>1, <2>1 DEF Own
    <2>2. CASE live'[k] = Closed
      BY <1>2, <2>2 DEF Own, Until
    <2>3. QED
      BY <1>3, <2>1, <2>2
  <1>7. QED
    BY <1>4, <1>5, <1>6 DEF Spare

(* The tracker has not changed: what is in flight is as sound as it was.   *)
LEMMA SoundStays ==
  ASSUME IInv, UNCHANGED server, draft.of # None => draft'.of # None,
         edits <= edits', edits' \in Nat, strayed \subseteq strayed',
         NEW f \in flights
  PROVE  Sound(f)'
  <1>1. f.doc.text \in SUBSET Marks
    BY Typed DEF Flight, Doc
  <1>2. Until(edits', f.doc.text)
    BY <1>1, Typed, UntilGrows DEF IInv, Sound
  <1>3. \A i : Own(i, f.doc.text) => Own(i, f.doc.text)'
    BY DEF Own
  <1>4. QED
    BY <1>2, <1>3 DEF IInv, Sound, Reply

(* The tracker has changed an item: what was sent for it is refused.       *)
LEMMA SoundAcross ==
  ASSUME IInv, NEW i \in Items, NEW text, Change(i, text), UNCHANGED <<draft, strayed>>,
         edits <= edits', edits' \in Nat, NEW f \in flights
  PROVE  Sound(f)'
  <1>1. /\ f.id \in Items /\ f.doc \in Doc /\ f.doc.rev \in Nat
        /\ f.doc.text \in SUBSET Marks
    BY Typed DEF Flight, Doc
  <1>0. Until(edits', f.doc.text)
    BY <1>1, Typed, UntilGrows DEF IInv, Sound
  <1>2. CASE f.id # i
    <2>1. server'[f.id] = server[f.id]
      BY <1>1, <1>2, Typed DEF Change
    <2>2. f.op = "config" => server'[Config] = server[Config]
      BY <2>1 DEF IInv, Sound
    <2>3. QED
      BY <1>0, <2>1, <2>2 DEF IInv, Sound, Reply, Own
  <1>3. CASE f.id = i
    <2>1. server'[i].rev = server[i].rev + 1 /\ server[i].rev \in Nat
      BY Typed DEF Change, Doc
    <2>2. f.doc.rev <= server[i].rev => f.doc.rev <= server'[i].rev /\ f.doc.rev # server'[i].rev
      BY <1>1, <2>1
    <2>3. f.op = "config" => i = Config
      BY <1>3 DEF IInv, Sound
    <2>4. QED
      BY <1>0, <1>3, <2>2, <2>3 DEF IInv, Sound, Reply, Own
  <1>4. QED
    BY <1>2, <1>3

(* No new copy of the configuration, and nothing of it forgotten.          *)
LEMMA TextStays ==
  ASSUME IInv, Copies' \subseteq Copies, form'.doc.text \subseteq form'.text
  PROVE  OneText'
  BY DEF IInv, OneText

LEMMA SoundSame ==
  ASSUME NEW f, Sound(f), UNCHANGED <<server, draft, edits, strayed>>
  PROVE  Sound(f)'
  BY DEF Sound, Reply, Own

(* One more request, that is not a reply.                                  *)
LEMMA LaunchKeeps ==
  ASSUME IInv, NEW f \in Flight, Sound(f)', ~ Reply(f), flights' = flights \cup {f},
         UNCHANGED <<server, shown, draft, dirty, live, form, edits>>,
         strayed \subseteq strayed', strayed' \subseteq Marks,
         busy' \in BOOLEAN, clicks' \in 0..MaxClicks
  PROVE  IInv'
  <1>1. TypeOK'
    BY DEF IInv, TypeOK
  <1>2. Owned' /\ Dated'
    BY DEF IInv, Owned, Dated, Own
  <1>2a. Spare'
    BY Typed, LiveStays
  <1>3. \A g \in flights' : Sound(g)'
    BY SoundStays, Typed
  <1>4. Copies' = Copies
    BY DEF Copies, Reply
  <1>5. QED
    BY <1>1, <1>2, <1>2a, <1>3, <1>4, TextStays DEF IInv, OneText

(* A request that becomes another, or ends.                                *)
LEMMA PageGoesOn ==
  ASSUME IInv, UNCHANGED <<server, clicks, strayed>>, Spare',
         live' \in [Live -> [of : Tickets \cup {None}, text : SUBSET Marks]],
         flights' \subseteq Flight, \A f \in flights' : f \in flights \/ Sound(f)',
         draft.of # None => draft'.of # None,
         shown' \in [id : Tickets \cup {None}, doc : Doc],
         draft' \in [of : Tickets \cup {None}, text : SUBSET Marks], dirty' \in BOOLEAN,
         form' \in [doc : Doc, text : SUBSET Marks], busy' \in BOOLEAN,
         edits <= edits', edits' \in 0..MaxEdits,
         shown'.id # None => /\ Own(shown'.id, shown'.doc.text) /\ draft'.of # None
                             /\ shown'.doc.rev <= server[shown'.id].rev,
         dirty' => draft'.of # None,
         Own(draft'.of, draft'.text),
         Own(Config, form'.doc.text), Own(Config, form'.text),
         form'.doc.rev <= server[Config].rev,
         Until(edits', shown'.doc.text), Until(edits', draft'.text),
         Until(edits', form'.doc.text), Until(edits', form'.text),
         OneText'
  PROVE  IInv'
  <1>1. TypeOK'
    BY DEF IInv, TypeOK
  <1>2. Owned'
    BY DEF IInv, Owned, Own
  <1>3. \A i \in Items : Until(edits', server[i].text)
    <2>1. edits' \in Nat /\ \A i \in Items : server[i].text \in SUBSET Marks
      BY Typed, BoundAssumption DEF Doc
    <2>2. QED
      BY <2>1, Typed, UntilGrows DEF IInv, Dated
  <1>4. Dated'
    BY <1>3 DEF IInv, Dated
  <1>5. \A f \in flights' : Sound(f)'
    BY SoundStays, BoundAssumption
  <1>6. QED
    BY <1>1, <1>2, <1>4, <1>5 DEF IInv

(* The live editors are as they were, or closed.                           *)
LEMMA PageKeeps ==
  ASSUME IInv, UNCHANGED <<server, clicks, strayed>>,
         (UNCHANGED live) \/ \E closed : live' = Without(closed),
         flights' \subseteq Flight, \A f \in flights' : f \in flights \/ Sound(f)',
         draft.of # None => draft'.of # None,
         shown' \in [id : Tickets \cup {None}, doc : Doc],
         draft' \in [of : Tickets \cup {None}, text : SUBSET Marks], dirty' \in BOOLEAN,
         form' \in [doc : Doc, text : SUBSET Marks], busy' \in BOOLEAN,
         edits <= edits', edits' \in 0..MaxEdits,
         shown'.id # None => /\ Own(shown'.id, shown'.doc.text) /\ draft'.of # None
                             /\ shown'.doc.rev <= server[shown'.id].rev,
         dirty' => draft'.of # None,
         Own(draft'.of, draft'.text),
         Own(Config, form'.doc.text), Own(Config, form'.text),
         form'.doc.rev <= server[Config].rev,
         Until(edits', shown'.doc.text), Until(edits', draft'.text),
         Until(edits', form'.doc.text), Until(edits', form'.text),
         OneText'
  PROVE  IInv'
  <1>1. Spare' /\ live' \in [Live -> [of : Tickets \cup {None}, text : SUBSET Marks]]
    BY LiveStays, BoundAssumption
  <1>2. QED
    BY <1>1, PageGoesOn

-----------------------------------------------------------------------------
(***************************************************************************)
(* Steps that send a request.                                              *)
(***************************************************************************)

LEMMA OpenKeeps ==
  ASSUME IInv, NEW t \in Tickets, Open(t)
  PROVE  IInv'
  <1> DEFINE f == [Request EXCEPT !.op = "load", !.id = t]
  <1>1. /\ f \in Flight /\ f.id = t /\ f.op = "load" /\ f.at = "get" /\ ~ f.dirty
        /\ Until(edits, f.doc.text)
        /\ flights' = flights \cup {f}
    BY RequestTyped DEF Open, Launch, Request, Flight, Items
  <1> HIDE DEF f
  <1>2. Sound(f)' /\ ~ Reply(f)
    BY <1>1, SoundSame DEF Sound, Reply, Open, page, history
  <1>3. QED
    BY <1>1, <1>2, LaunchKeeps DEF Open, page, history, IInv, TypeOK

LEMMA RefreshKeeps ==
  ASSUME IInv, Refresh
  PROVE  IInv'
  <1>1. PICK id \in {Config, shown.id} \ {None} :
          Launch([Request EXCEPT !.id = id, !.dirty = dirty /\ id # Config])
    BY DEF Refresh
  <1> DEFINE d == dirty /\ id # Config
             f == [Request EXCEPT !.id = id, !.dirty = d]
  <1>2. id \in Items /\ d \in BOOLEAN
    BY Typed DEF Items
  <1>3. d => dirty
    OBVIOUS
  <1>4. flights' = flights \cup {f}
    BY <1>1 DEF Launch
  <1> HIDE DEF d
  <1>5. f \in Flight /\ f.id = id /\ f.op = "refresh" /\ f.at = "get" /\ f.dirty = d
        /\ Until(edits, f.doc.text)
    BY <1>2, RequestTyped DEF Request, Flight
  <1> HIDE DEF f
  <1>6. Sound(f) /\ ~ Reply(f)
    BY <1>3, <1>5 DEF Sound, Reply, IInv, Owned, Live
  <1>6a. PICK h : h = f
    OBVIOUS
  <1>6b. h \in Flight /\ Sound(h) /\ ~ Reply(h) /\ flights' = flights \cup {h}
    BY <1>4, <1>5, <1>6, <1>6a
  <1>6c. Sound(h)'
    BY <1>6b, SoundSame DEF Refresh, page, history
  <1>7. QED
    BY <1>6b, <1>6c, LaunchKeeps DEF Refresh, page, history, IInv, TypeOK

(* A click sends one request.                                              *)
LEMMA ClickKeeps ==
  ASSUME IInv, NEW f \in Flight, Click(f), UNCHANGED strayed,
         LET g == [f EXCEPT !.click = clicks + 1, !.at = "sent", !.dirty = dirty]
         IN  g \in Flight => Sound(g)
  PROVE  IInv'
  <1> DEFINE g == [f EXCEPT !.click = clicks + 1, !.at = "sent", !.dirty = dirty]
  <1>1. clicks + 1 \in 0..MaxClicks /\ clicks' = clicks + 1 /\ dirty \in BOOLEAN
    BY Typed, BoundAssumption DEF Click, IInv, TypeOK
  <1>2. flights' = flights \cup {g}
    BY DEF Click, Launch
  <1>3. g \in Flight /\ g.at = "sent"
    BY <1>1 DEF Flight
  <1> HIDE DEF g
  <1>4. Sound(g) /\ ~ Reply(g)
    BY <1>3 DEF Reply, g
  <1>4a. PICK h : h = g
    OBVIOUS
  <1>4b. h \in Flight /\ Sound(h) /\ ~ Reply(h) /\ flights' = flights \cup {h}
    BY <1>2, <1>3, <1>4, <1>4a
  <1>4c. Sound(h)'
    BY <1>4b, SoundSame DEF Click, page
  <1>5. QED
    BY <1>1, <1>4b, <1>4c, LaunchKeeps DEF Click, page, IInv, TypeOK

LEMMA RunKeeps ==
  ASSUME IInv, Run
  PROVE  IInv'
  <1> DEFINE f == [Request EXCEPT !.op = "run", !.id = shown.id, !.doc = shown.doc]
             g == [f EXCEPT !.click = clicks + 1, !.at = "sent", !.dirty = dirty]
  <1>1. shown.id \in Tickets /\ shown.doc \in Doc /\ shown.id \in Items
    BY Typed DEF Run
  <1>2. f \in Flight /\ f.op = "run" /\ f.id = shown.id /\ f.doc = shown.doc
    BY <1>1, RequestTyped DEF Flight, Commands, Request
  <1>3. Click(f) /\ UNCHANGED strayed
    BY DEF Run
  <1>4. /\ g.op = "run" /\ g.id = shown.id /\ g.doc = shown.doc /\ g.at = "sent"
        /\ g.dirty = dirty
    BY <1>2 DEF Flight
  <1> HIDE DEF f
  <1>5. g \in Flight => Sound(g)
    <2> HIDE DEF g
    <2>1. QED
      BY <1>1, <1>4 DEF Sound, Reply, IInv, Owned, Dated, Run, Commands
  <1>6. QED
    BY <1>2, <1>3, <1>5, ClickKeeps

LEMMA SaveKeeps ==
  ASSUME IInv, Save
  PROVE  IInv'
  <1> DEFINE doc == [rev |-> shown.doc.rev, text |-> draft.text]
             f == [Request EXCEPT !.op = "save", !.id = shown.id, !.of = draft.of,
                                  !.since = edits, !.doc = doc]
             g == [f EXCEPT !.click = clicks + 1, !.at = "sent", !.dirty = dirty]
  <1>1. shown.id \in Tickets /\ shown.doc \in Doc /\ shown.id \in Items
    BY Typed DEF Save
  <1>2. doc \in Doc /\ doc.rev = shown.doc.rev /\ doc.text = draft.text
    BY <1>1, Typed DEF Doc
  <1>3. Click(f) /\ UNCHANGED strayed
    BY DEF Save
  <1> HIDE DEF doc
  <1>4. /\ f \in Flight /\ f.op = "save" /\ f.id = shown.id /\ f.doc = doc /\ f.of = draft.of
        /\ f.since = edits
    BY <1>1, <1>2, Typed, RequestTyped DEF Flight, Commands, Request
  <1>5. /\ g.op = "save" /\ g.id = shown.id /\ g.doc = doc /\ g.at = "sent" /\ g.of = draft.of
        /\ g.since = edits /\ g.dirty = dirty
    BY <1>4 DEF Flight
  <1> HIDE DEF f
  <1>6. g \in Flight => Sound(g)
    <2> HIDE DEF g
    <2>1. QED
      BY <1>1, <1>2, <1>5 DEF Sound, Reply, IInv, Owned, Dated, Save, Commands, Live
  <1>7. QED
    BY <1>3, <1>4, <1>6, ClickKeeps

(* Live text that is sent off with another ticket shown has strayed.       *)
LEMMA SendLiveKeeps ==
  ASSUME IInv, NEW k \in Live, SendLive(k)
  PROVE  IInv'
  <1> DEFINE doc == [rev |-> shown.doc.rev, text |-> live[k].text]
             f == [Request EXCEPT !.op = k, !.id = shown.id, !.since = edits, !.doc = doc]
             g == [f EXCEPT !.click = clicks + 1, !.at = "sent", !.dirty = dirty]
  <1>1. shown.id \in Tickets /\ shown.doc \in Doc /\ shown.id \in Items
    BY Typed DEF SendLive
  <1>2. doc \in Doc /\ doc.rev = shown.doc.rev /\ doc.text = live[k].text
    BY <1>1, Typed DEF Doc
  <1>3. Click(f) /\ strayed' = strayed \cup {m \in live[k].text : m[1] # shown.id}
    BY DEF SendLive
  <1> HIDE DEF doc
  <1>4. /\ f \in Flight /\ f.op = k /\ f.id = shown.id /\ f.doc = doc /\ f.since = edits
    BY <1>1, <1>2, Typed, RequestTyped DEF Flight, Commands, Request
  <1>5. clicks + 1 \in 0..MaxClicks /\ clicks' = clicks + 1 /\ dirty \in BOOLEAN
    BY <1>3, Typed, BoundAssumption DEF Click, IInv, TypeOK
  <1>6. /\ g \in Flight /\ g.op = k /\ g.id = shown.id /\ g.doc = doc /\ g.at = "sent"
        /\ g.since = edits /\ g.dirty = dirty
    BY <1>4, <1>5 DEF Flight
  <1>7. flights' = flights \cup {g}
    BY <1>3 DEF Click, Launch
  <1>8. UNCHANGED <<server, shown, draft, dirty, live, form, edits>> /\ busy' \in BOOLEAN
    BY <1>3 DEF Click, page
  <1> HIDE DEF f
  <1> HIDE DEF g
  <1>9. strayed \subseteq strayed' /\ strayed' \subseteq Marks
    <2>1. live[k].text \in SUBSET Marks /\ strayed \subseteq Marks
      BY Typed DEF IInv, TypeOK
    <2>2. QED
      BY <1>3, <2>1
  <1>10. PICK h : h = g
    OBVIOUS
  <1>11. /\ h \in Flight /\ h.op = k /\ h.id = shown.id /\ h.at = "sent" /\ h.since = edits
         /\ h.dirty = dirty /\ flights' = flights \cup {h}
         /\ h.doc.text = live[k].text /\ h.doc.rev = shown.doc.rev
    BY <1>2, <1>6, <1>7, <1>10
  <1>12. /\ Until(edits, h.doc.text) /\ h.doc.rev <= server[h.id].rev
         /\ h.dirty => draft.of # None
         /\ Until(h.since, server[h.id].text)
    BY <1>1, <1>11 DEF IInv, Owned, Spare, Dated, SendLive
  <1>13. Own(h.id, h.doc.text)'
    BY <1>3, <1>11 DEF Own
  <1>14. h.op \in Commands /\ h.op \notin {"save", "config"} /\ h.id \in Tickets /\ ~ Reply(h)
    BY <1>1, <1>11 DEF Commands, Live, Reply
  <1>15. Sound(h)'
    BY <1>8, <1>11, <1>12, <1>13, <1>14 DEF Sound, Reply
  <1>16. QED
    BY <1>5, <1>8, <1>9, <1>11, <1>14, <1>15, LaunchKeeps

LEMMA SaveConfigKeeps ==
  ASSUME IInv, SaveConfig
  PROVE  IInv'
  <1> DEFINE doc == [rev |-> form.doc.rev, text |-> form.text]
             f == [Request EXCEPT !.op = "config", !.doc = doc]
             g == [f EXCEPT !.click = clicks + 1, !.at = "sent", !.dirty = dirty]
  <1>1. doc \in Doc /\ doc.rev = form.doc.rev /\ doc.text = form.text
    BY Typed DEF Doc
  <1>2. Click(f) /\ UNCHANGED strayed
    BY DEF SaveConfig
  <1> HIDE DEF doc
  <1>3. f \in Flight /\ f.op = "config" /\ f.id = Config /\ f.doc = doc
    BY <1>1, RequestTyped DEF Flight, Commands, Request
  <1>4. g.op = "config" /\ g.id = Config /\ g.doc = doc /\ g.at = "sent" /\ g.dirty = dirty
    BY <1>3 DEF Flight
  <1>5. form.doc.rev = server[Config].rev => server[Config].text \subseteq form.text
    BY DEF IInv, OneText, Copies
  <1> HIDE DEF f
  <1>6. g \in Flight => Sound(g)
    <2> HIDE DEF g
    <2>1. QED
      BY <1>1, <1>4, <1>5 DEF Sound, Reply, IInv, Owned, Dated, Commands, Live
  <1>7. QED
    BY <1>2, <1>3, <1>6, ClickKeeps

-----------------------------------------------------------------------------
(***************************************************************************)
(* Steps of the operator that send nothing.                                *)
(***************************************************************************)

LEMMA ShowQueueKeeps ==
  ASSUME IInv, ShowQueue
  PROVE  IInv'
  <1>1. OneText'
    BY TextStays DEF ShowQueue, Copies, IInv, OneText
  <1>2. /\ shown'.id = None /\ shown' \in [id : Tickets \cup {None}, doc : Doc]
        /\ Until(edits, shown'.doc.text)
    BY RequestTyped DEF ShowQueue
  <1>3. flights \subseteq Flight /\ edits <= edits
    BY Typed
  <1>4. QED
    BY <1>1, <1>2, <1>3, PageKeeps DEF ShowQueue, history, IInv, TypeOK, Owned, Dated

(* A new change is marked with its item, and newer than all.               *)
LEMMA MarkTyped ==
  ASSUME IInv, edits < MaxEdits, NEW i \in Items
  PROVE  /\ <<i, edits + 1>> \in Marks /\ edits + 1 \in 0..MaxEdits /\ edits <= edits + 1
         /\ Until(edits + 1, shown.doc.text) /\ Until(edits + 1, draft.text)
         /\ Until(edits + 1, form.doc.text) /\ Until(edits + 1, form.text)
         /\ \A j \in Items : Until(edits + 1, server[j].text)
         /\ edits + 1 \in Nat
  <1>1. edits + 1 \in 1..MaxEdits /\ edits + 1 \in 0..MaxEdits /\ edits <= edits + 1
    BY Typed, BoundAssumption
  <1>2. edits + 1 \in Nat /\ edits + 1 <= edits + 1
    BY Typed
  <1>3. /\ shown.doc.text \in SUBSET Marks /\ draft.text \in SUBSET Marks
        /\ form.doc.text \in SUBSET Marks /\ form.text \in SUBSET Marks
        /\ \A j \in Items : server[j].text \in SUBSET Marks
    BY Typed DEF Doc
  <1>4. QED
    BY <1>1, <1>2, <1>3, Typed, UntilGrows DEF Marks, IInv, Dated

LEMMA TypeKeeps ==
  ASSUME IInv, Type
  PROVE  IInv'
  <1>1. OneText'
    BY TextStays DEF Type, Copies, IInv, OneText
  <1>2. draft.of # None /\ draft.of \in Items
    BY Typed DEF IInv, Owned, Type
  <1> DEFINE text == draft.text \cup {<<draft.of, edits + 1>>}
  <1>3. text \in SUBSET Marks /\ edits + 1 \in 0..MaxEdits /\ edits <= edits + 1
    BY <1>2, MarkTyped, Typed DEF Type
  <1>4. /\ Until(edits + 1, text) /\ Until(edits + 1, shown.doc.text)
        /\ Until(edits + 1, form.doc.text) /\ Until(edits + 1, form.text)
    BY <1>2, MarkTyped, UntilAdds DEF Type
  <1>4a. Own(draft.of, text)
    BY DEF IInv, Owned, Own
  <1>5. draft' = [draft EXCEPT !.text = text]
    BY DEF Type
  <1> HIDE DEF text
  <1>6. draft'.of = draft.of /\ draft'.text = text
        /\ draft' \in [of : Tickets \cup {None}, text : SUBSET Marks]
    BY <1>3, <1>5, Typed
  <1>9. QED
    BY <1>1, <1>2, <1>3, <1>4, <1>6, <1>4a, PageKeeps DEF Type, IInv, TypeOK, Owned, Dated

LEMMA TypeLiveKeeps ==
  ASSUME IInv, NEW k \in Live, TypeLive(k)
  PROVE  IInv'
  <1>1. OneText'
    BY TextStays DEF TypeLive, Copies, IInv, OneText
  <1> DEFINE open == Opened(k)
             text == open.text \cup {<<open.of, edits + 1>>}
  <1>2. /\ open \in [of : Tickets \cup {None}, text : SUBSET Marks] /\ open.of # None
        /\ Own(open.of, open.text) /\ Until(edits, open.text)
    BY Typed DEF Opened, TypeLive, IInv, Spare, Owned, Dated, Doc, Own, Until
  <1>3. live' = [live EXCEPT ![k] = [open EXCEPT !.text = text]]
    BY DEF TypeLive
  <1> HIDE DEF open
  <1>4. <<open.of, edits + 1>> \in Marks
    BY <1>2, MarkTyped, Typed DEF TypeLive
  <1>5. text \in SUBSET Marks /\ Own(open.of, text)
    BY <1>2, <1>4 DEF Own
  <1>6. /\ edits' = edits + 1 /\ edits <= edits' /\ edits' \in 0..MaxEdits /\ edits' \in Nat
        /\ Until(edits', shown.doc.text) /\ Until(edits', draft.text)
        /\ Until(edits', form.doc.text) /\ Until(edits', form.text)
    BY MarkTyped, Typed DEF TypeLive
  <1>7. Until(edits', text)
    <2>1. Until(edits', open.text)
      BY <1>2, <1>6, Typed, UntilGrows
    <2>2. QED
      BY <1>6, <2>1, UntilAdds
  <1> HIDE DEF text
  <1>8. PICK new : new = [open EXCEPT !.text = text]
    OBVIOUS
  <1>9. new \in [of : Tickets \cup {None}, text : SUBSET Marks] /\ new.of = open.of /\ new.text = text
    BY <1>2, <1>5, <1>8
  <1>10. /\ live' \in [Live -> [of : Tickets \cup {None}, text : SUBSET Marks]] /\ live'[k] = new
         /\ \A l \in Live \ {k} : live'[l] = live[l]
    BY <1>3, <1>8, <1>9, Typed
  <1>11. ASSUME NEW l \in Live PROVE Own(live'[l].of, live'[l].text) /\ Until(edits', live'[l].text)
    <2>1. CASE l = k
      BY <1>5, <1>7, <1>9, <1>10, <2>1
    <2>2. CASE l # k
      <3>1. live[l].text \in SUBSET Marks /\ Until(edits, live[l].text) /\ Own(live[l].of, live[l].text)
        BY Typed DEF IInv, Spare
      <3>2. QED
        BY <1>6, <1>10, <2>2, <3>1, Typed, UntilGrows
    <2>3. QED
      BY <2>1, <2>2
  <1>12. UNCHANGED <<server, shown, draft, dirty, form, busy, flights, clicks, strayed>>
    BY DEF TypeLive
  <1>13. Spare'
    BY <1>11, <1>12 DEF Spare, Own
  <1>14. QED
    BY <1>1, <1>6, <1>10, <1>12, <1>13, PageGoesOn, Typed DEF IInv, TypeOK, Owned, Dated

LEMMA CancelLiveKeeps ==
  ASSUME IInv, NEW k \in Live, CancelLive(k)
  PROVE  IInv'
  <1>1. OneText'
    BY TextStays DEF CancelLive, Copies, IInv, OneText
  <1>2. flights \subseteq Flight /\ edits <= edits
    BY Typed
  <1>3. QED
    BY <1>1, <1>2, PageKeeps DEF CancelLive, history, IInv, TypeOK, Owned, Dated

LEMMA CancelKeeps ==
  ASSUME IInv, Cancel
  PROVE  IInv'
  <1>1. OneText'
    BY TextStays DEF Cancel, Copies, IInv, OneText
  <1>2. /\ draft'.of = shown.id /\ draft'.text = shown.doc.text
        /\ draft' \in [of : Tickets \cup {None}, text : SUBSET Marks] /\ shown.id # None
    BY Typed DEF Cancel, DraftFrom, Doc
  <1>3. flights \subseteq Flight /\ edits <= edits
    BY Typed
  <1>4. QED
    BY <1>1, <1>2, <1>3, PageKeeps DEF Cancel, history, IInv, TypeOK, Owned, Dated

LEMMA TypeConfigKeeps ==
  ASSUME IInv, TypeConfig
  PROVE  IInv'
  <1> DEFINE text == form.text \cup {<<Config, edits + 1>>}
  <1>1. text \in SUBSET Marks /\ edits + 1 \in 0..MaxEdits /\ edits <= edits + 1
    BY MarkTyped, Typed DEF TypeConfig
  <1>2. Own(Config, text) /\ form.text \subseteq text
    BY DEF IInv, Owned, Own
  <1>2a. /\ Until(edits + 1, text)
         /\ Until(edits + 1, shown.doc.text) /\ Until(edits + 1, draft.text)
         /\ Until(edits + 1, form.doc.text)
    BY MarkTyped, UntilAdds, Typed DEF TypeConfig
  <1>3. form' = [form EXCEPT !.text = text]
    BY DEF TypeConfig
  <1> HIDE DEF text
  <1>4. form'.doc = form.doc /\ form'.text = text /\ form' \in [doc : Doc, text : SUBSET Marks]
    BY <1>1, <1>3, Typed
  <1>5. OneText'
    BY <1>2, <1>4, TextStays DEF TypeConfig, Copies, IInv, OneText
  <1>6. QED
    BY <1>1, <1>2, <1>2a, <1>4, <1>5, PageKeeps DEF TypeConfig, page, IInv, TypeOK, Owned, Dated

-----------------------------------------------------------------------------
(***************************************************************************)
(* Replies.                                                                *)
(***************************************************************************)

(* A copy of the configuration that was in flight comes to the form.       *)
LEMMA Applied ==
  ASSUME IInv, NEW doc \in Copies, ApplyConfig(doc), UNCHANGED server,
         flights' \subseteq flights
  PROVE  OneText' /\ form' = [doc |-> doc, text |-> form'.text]
         /\ form'.text \in {form.text, doc.text}
  <1>1. form'.doc = doc /\ form' = [doc |-> doc, text |-> form'.text]
        /\ form'.text \in {form.text, doc.text}
    BY DEF ApplyConfig
  <1>2. Copies' \subseteq Copies
    BY <1>1 DEF Copies, Reply
  <1>3. doc.rev = form.doc.rev => doc.text = form.doc.text
    BY DEF IInv, OneText, Copies
  <1>4. doc.text \subseteq form'.text
    BY <1>3 DEF ApplyConfig, IInv, OneText
  <1>5. QED
    BY <1>1, <1>2, <1>4, TextStays

(* A reply about the configuration ends its request.                       *)
LEMMA ConfigReplyKeeps ==
  ASSUME IInv, NEW f \in flights, Reply(f), f.id = Config, ApplyConfig(f.doc), Ends(f),
         UNCHANGED <<server, page, history>>
  PROVE  IInv'
  <1>1. f.doc \in Copies /\ flights' \subseteq flights
    BY DEF Copies, Ends
  <1> DEFINE doc == f.doc
  <1>2. doc \in Copies /\ ApplyConfig(doc) /\ doc \in Doc /\ doc.text \in SUBSET Marks
        /\ Own(Config, doc.text) /\ doc.rev <= server[Config].rev
        /\ Until(edits, doc.text)
    BY <1>1, Typed DEF Flight, Doc, IInv, Sound
  <1> HIDE DEF doc
  <1>3. OneText' /\ form' = [doc |-> doc, text |-> form'.text]
        /\ form'.text \in {form.text, doc.text}
    BY <1>1, <1>2, Applied
  <1>4. form' \in [doc : Doc, text : SUBSET Marks] /\ form'.doc = doc
        /\ Own(Config, form'.text) /\ Until(edits, form'.text)
    BY <1>2, <1>3, Typed DEF IInv, Owned, Dated
  <1>5. flights' \subseteq Flight /\ busy' \in BOOLEAN /\ edits <= edits
    BY <1>1, Typed DEF Ends, IInv, TypeOK
  <1>6. QED
    BY <1>1, <1>2, <1>3, <1>4, <1>5, PageKeeps DEF page, history, IInv, TypeOK, Owned, Dated

LEMMA LostKeeps ==
  ASSUME IInv, NEW f \in flights, Lost(f)
  PROVE  IInv'
  <1>1. Copies' \subseteq Copies
    BY DEF Lost, Ends, Copies, Reply
  <1>2. OneText'
    BY <1>1, TextStays DEF Lost, IInv, OneText
  <1>3. flights' \subseteq flights /\ flights' \subseteq Flight /\ busy' \in BOOLEAN
        /\ edits <= edits
    BY Typed DEF Lost, Ends, IInv, TypeOK
  <1>4. shown' = shown \/ shown' = NoTicket
    BY DEF Lost
  <1>5. /\ shown' \in [id : Tickets \cup {None}, doc : Doc]
        /\ shown'.id # None => /\ Own(shown'.id, shown'.doc.text) /\ draft.of # None
                               /\ shown'.doc.rev <= server[shown'.id].rev
        /\ Until(edits, shown'.doc.text)
    BY <1>4, Typed, RequestTyped DEF IInv, Owned, Dated
  <1>6. QED
    BY <1>2, <1>3, <1>5, PageKeeps DEF Lost, history, IInv, TypeOK, Owned, Dated

LEMMA ReadKeeps ==
  ASSUME IInv, NEW f \in flights, Read(f)
  PROVE  IInv'
  <1>1. f \in Flight /\ f.id \in Items /\ server[f.id] \in Doc
    BY Typed DEF Flight
  <1>2. PICK g \in Flight : g = [f EXCEPT !.at = "got", !.doc = server[f.id]]
    BY <1>1 DEF Flight
  <1>3. /\ g.at = "got" /\ g.doc = server[f.id] /\ g.id = f.id /\ g.op = f.op
        /\ g.dirty = f.dirty
    BY <1>1, <1>2 DEF Flight
  <1>4. flights' = (flights \ {f}) \cup {g}
    BY <1>2 DEF Read, Becomes
  <1>5. Sound(f) /\ f.at = "get"
    BY DEF IInv, Read
  <1>6. Sound(g)'
    BY <1>1, <1>3, <1>5, Typed DEF Dated, Sound, Reply, Own, IInv, Owned, Read, page, history, Doc
  <1>7. Copies' \subseteq Copies
    BY <1>3, <1>4 DEF Copies, Reply, Read
  <1>8. OneText'
    BY <1>7, TextStays DEF Read, IInv, OneText
  <1>9. flights' \subseteq Flight /\ (\A h \in flights' : h \in flights \/ Sound(h)')
        /\ edits <= edits
    BY <1>4, <1>6, Typed
  <1>10. QED
    BY <1>8, <1>9, PageKeeps DEF Read, page, history, IInv, TypeOK, Owned, Dated

LEMMA GotKeeps ==
  ASSUME IInv, NEW f \in flights, Got(f)
  PROVE  IInv'
  <1>1. f \in Flight /\ Sound(f) /\ Reply(f)
    BY Typed DEF Got, IInv, Reply
  <1>2. CASE f.id = Config
    BY <1>1, <1>2, ConfigReplyKeeps DEF Got
  <1>3. CASE f.id # Config
    <2>1. f.id \in Tickets /\ f.id # None /\ f.doc \in Doc
      BY <1>1, <1>3, Typed DEF Flight, Items
    <2>2. /\ shown' = [id |-> f.id, doc |-> f.doc]
          /\ draft' = IF Keeps(f) THEN draft ELSE DraftFrom(f.id, f.doc)
          /\ dirty' = (dirty /\ f.op # "load")
          /\ live' = Without(IF f.op = "load" THEN Live ELSE {f.op} \cap {"description"})
          /\ flights' \subseteq flights
          /\ UNCHANGED <<form, server, edits, clicks, strayed>>
      BY <1>3 DEF Got, Ends, history
    <2>3. shown' \in [id : Tickets \cup {None}, doc : Doc]
      BY <2>1, <2>2
    <2>4. /\ draft' \in [of : Tickets \cup {None}, text : SUBSET Marks]
          /\ draft'.of # None /\ Own(draft'.of, draft'.text) /\ Until(edits, draft'.text)
      <3>1. CASE Keeps(f)
        BY <1>1, <2>2, <3>1, Typed DEF Keeps, Sound, IInv, Owned, Dated
      <3>2. CASE ~ Keeps(f)
        BY <1>1, <2>1, <2>2, <3>2 DEF DraftFrom, Sound, Doc
      <3>3. QED
        BY <3>1, <3>2
    <2>5. OneText'
      BY <2>2, TextStays DEF Copies, IInv, OneText
    <2>6. flights' \subseteq Flight /\ busy' \in BOOLEAN /\ dirty' \in BOOLEAN /\ edits <= edits
      BY <2>2, Typed DEF Got, Ends, IInv, TypeOK
    <2>7. /\ Own(shown'.id, shown'.doc.text)
          /\ shown'.doc.rev <= server[shown'.id].rev /\ Until(edits, shown'.doc.text)
      BY <1>1, <2>2 DEF Sound
    <2>8. QED
      BY <2>2, <2>3, <2>4, <2>5, <2>6, <2>7, PageKeeps DEF IInv, TypeOK, Owned, Dated
  <1>4. QED
    BY <1>2, <1>3

LEMMA AnswerKeeps ==
  ASSUME IInv, NEW f \in flights, Answer(f)
  PROVE  IInv'
  <1>1. f \in Flight /\ Sound(f)
    BY Typed DEF IInv
  <1>2. CASE /\ f.op \in {"run", "save"} \cup Live /\ f.at = "done"
             /\ shown' = [id |-> f.id, doc |-> f.doc] /\ draft' = DraftFrom(f.id, f.doc)
             /\ dirty' = FALSE /\ live' = Without({"comment"})
             /\ Becomes(f, [f EXCEPT !.at = "get", !.doc = Blank])
             /\ UNCHANGED <<server, form, busy, history>>
    <2>1. f.id \in Tickets /\ f.id # None /\ f.doc \in Doc
      BY <1>1, <1>2, Typed DEF Flight, Items, Sound
    <2>2. PICK g \in Flight : g = [f EXCEPT !.at = "get", !.doc = Blank]
      BY <1>1, RequestTyped DEF Flight
    <2>3. /\ g.at = "get" /\ g.id = f.id /\ g.op = f.op /\ g.dirty = f.dirty
          /\ Until(edits, g.doc.text)
      BY <1>1, <2>2, RequestTyped DEF Flight
    <2>4. flights' = (flights \ {f}) \cup {g}
      BY <1>2, <2>2 DEF Becomes
    <2>5. /\ shown' \in [id : Tickets \cup {None}, doc : Doc]
          /\ draft' \in [of : Tickets \cup {None}, text : SUBSET Marks]
          /\ draft'.of # None /\ Own(draft'.of, draft'.text)
          /\ Own(shown'.id, shown'.doc.text) /\ shown'.doc.rev <= server[shown'.id].rev
          /\ Until(edits, draft'.text) /\ Until(edits, shown'.doc.text)
      BY <1>1, <1>2, <2>1 DEF DraftFrom, Sound, Reply, Doc
    <2>6. Sound(g)'
      BY <1>1, <1>2, <2>1, <2>3, <2>5 DEF Sound, Reply, history
    <2>7. OneText'
      BY <1>2, <2>3, <2>4, TextStays DEF Copies, Reply, IInv, OneText
    <2>8. flights' \subseteq Flight /\ (\A h \in flights' : h \in flights \/ Sound(h)')
          /\ edits <= edits
      BY <2>4, <2>6, Typed
    <2>9. QED
      BY <1>2, <2>5, <2>7, <2>8, PageKeeps DEF history, IInv, TypeOK, Owned, Dated
  <1>3. CASE /\ f.op = "config" /\ f.at = "done"
             /\ ApplyConfig(f.doc) /\ Ends(f)
             /\ UNCHANGED <<server, page, history>>
    BY <1>1, <1>3, ConfigReplyKeeps DEF Sound, Reply
  <1>4. CASE f.at = "refused" /\ Ends(f) /\ UNCHANGED <<server, page, form, history>>
    <2>1. flights' \subseteq flights /\ flights' \subseteq Flight /\ busy' \in BOOLEAN
          /\ edits <= edits
      BY <1>4, Typed DEF Ends, IInv, TypeOK
    <2>2. OneText'
      BY <1>4, <2>1, TextStays DEF Copies, Reply, IInv, OneText
    <2>3. QED
      BY <1>4, <2>1, <2>2, PageKeeps DEF page, history, IInv, TypeOK, Owned, Dated
  <1>5. QED
    BY <1>2, <1>3, <1>4 DEF Answer

-----------------------------------------------------------------------------
(***************************************************************************)
(* The tracker changes an item.                                            *)
(***************************************************************************)

(* The text is the item's own, and newer than every copy of it.            *)
LEMMA ChangeKeeps ==
  ASSUME IInv, NEW i \in Items, NEW text \in SUBSET Marks, Own(i, text), Change(i, text),
         edits <= edits', edits' \in 0..MaxEdits, Until(edits', text),
         flights' \subseteq Flight,
         \A f \in flights' : f \in flights \/ Sound(f)',
         \A f \in flights' \ flights : f.id = Config /\ Reply(f) => f.doc = server'[Config],
         UNCHANGED <<shown, draft, dirty, live, form, busy, clicks, strayed>>
  PROVE  IInv'
  <1>1. /\ server[i].rev \in Nat /\ server[i].rev + 1 \in Nat
        /\ server[i].rev + 1 > server[i].rev
    BY Typed
  <1>2. server' = [server EXCEPT ![i] = [rev |-> server[i].rev + 1, text |-> text]]
    BY DEF Change
  <1>3. server'[i] = [rev |-> server[i].rev + 1, text |-> text]
    BY <1>2, Typed
  <1>4. \A j \in Items \ {i} : server'[j] = server[j]
    BY <1>2, Typed
  <1>5. server' \in [Items -> Doc]
    BY <1>1, <1>2, Typed DEF Doc
  <1>6. TypeOK'
    BY <1>5 DEF IInv, TypeOK
  <1>7. Owned'
    BY <1>3, <1>4 DEF IInv, Owned, Own
  <1>8. \A j \in Items : server'[j].rev \in Nat /\ server[j].rev \in Nat
                         /\ server[j].rev <= server'[j].rev
    BY <1>1, <1>3, <1>4, Typed
  <1>9. /\ \A j \in Items : Until(edits', server'[j].text)
        /\ Until(edits', shown.doc.text) /\ Until(edits', draft.text)
        /\ Until(edits', form.doc.text) /\ Until(edits', form.text)
    <2>1. edits' \in Nat
      BY BoundAssumption
    <2>2. /\ shown.doc.text \in SUBSET Marks /\ draft.text \in SUBSET Marks
          /\ form.doc.text \in SUBSET Marks /\ form.text \in SUBSET Marks
          /\ \A j \in Items : server[j].text \in SUBSET Marks
      BY Typed DEF Doc
    <2>3. QED
      BY <1>3, <1>4, <2>1, <2>2, Typed, UntilGrows DEF IInv, Dated
  <1>10. Dated'
    <2>1. shown.id # None => shown.doc.rev <= server'[shown.id].rev
      <3>1. SUFFICES ASSUME shown.id # None PROVE shown.doc.rev <= server'[shown.id].rev
        OBVIOUS
      <3>2. shown.id \in Items /\ shown.doc.rev \in Nat
            /\ shown.doc.rev <= server[shown.id].rev
        BY <3>1, Typed DEF Doc, IInv, Dated
      <3>3. QED
        BY <1>8, <3>2
    <2>2. form.doc.rev <= server'[Config].rev
      <3>1. form.doc.rev \in Nat /\ form.doc.rev <= server[Config].rev /\ Config \in Items
        BY Typed DEF Doc, IInv, Dated
      <3>2. QED
        BY <1>8, <3>1
    <2>3. QED
      BY <1>9, <2>1, <2>2 DEF Dated
  <1>11. \A f \in flights' : Sound(f)'
    <2>1. SUFFICES ASSUME NEW f \in flights' PROVE Sound(f)'
      OBVIOUS
    <2>2. CASE f \in flights
      <3>1. UNCHANGED <<draft, strayed>>
        OBVIOUS
      <3>2. QED
        BY <2>2, <3>1, SoundAcross, BoundAssumption
    <2>3. QED
      BY <2>2
  <1>12. OneText'
    <2>1. \A c \in Copies : c.rev \in Nat /\ c.rev <= server[Config].rev
      <3>1. form.doc.rev \in Nat /\ form.doc.rev <= server[Config].rev
        BY Typed DEF Doc, IInv, Dated
      <3>2. \A f \in flights : f.id = Config /\ Reply(f)
              => f.doc.rev \in Nat /\ f.doc.rev <= server[Config].rev
        BY Typed DEF Flight, Doc, IInv, Sound
      <3>3. QED
        BY <3>1, <3>2, Typed DEF Copies
    <2>0. /\ UNCHANGED form
          /\ \A f \in flights' : f.id = Config /\ Reply(f)
               => f \in flights \/ f.doc = server'[Config]
      OBVIOUS
    <2>2. CASE i = Config
      <3>1. Copies' \subseteq Copies \cup {server'[Config]}
        BY <2>0 DEF Copies
      <3>2. server'[Config].rev = server[Config].rev + 1
        BY <1>3, <2>2
      <3>3. \A c \in Copies : c.rev # server'[Config].rev
        BY <2>1, <3>2, Typed
      <3>4. QED
        BY <3>1, <3>3 DEF IInv, OneText
    <2>3. CASE i # Config
      <3>1. server'[Config] = server[Config]
        BY <1>4, <2>3, Typed
      <3>2. Copies' \subseteq Copies
        BY <2>0, <3>1 DEF Copies
      <3>3. QED
        BY <3>2, TextStays DEF IInv, OneText
    <2>4. QED
      BY <2>2, <2>3
  <1>12a. Spare'
    BY LiveStays, BoundAssumption
  <1>13. QED
    BY <1>6, <1>7, <1>12a, <1>10, <1>11, <1>12 DEF IInv

LEMMA OthersEditKeeps ==
  ASSUME IInv, NEW i \in Items, OthersEdit(i)
  PROVE  IInv'
  <1> DEFINE text == server[i].text \cup {<<i, edits + 1>>}
  <1>1. server[i].text \in SUBSET Marks /\ <<i, edits + 1>> \in Marks
        /\ edits + 1 \in 0..MaxEdits /\ edits <= edits + 1 /\ edits' = edits + 1
    BY Typed, MarkTyped DEF OthersEdit, Doc
  <1>2. text \in SUBSET Marks /\ Own(i, text)
    BY <1>1 DEF IInv, Owned, Own
  <1>3. Until(edits + 1, text)
    BY MarkTyped, UntilAdds DEF OthersEdit
  <1>4. Change(i, text)
    BY DEF OthersEdit
  <1> HIDE DEF text
  <1>5. flights' = flights /\ flights \subseteq Flight
    BY Typed DEF OthersEdit
  <1>6. edits' = edits + 1 /\ edits <= edits' /\ edits' \in 0..MaxEdits
        /\ Until(edits', text)
    BY <1>1, <1>3
  <1>7. UNCHANGED <<shown, draft, dirty, live, form, busy, clicks, strayed>>
    BY DEF OthersEdit, page
  <1>8. flights' \subseteq Flight /\ flights' \ flights = {} /\ \A f \in flights' : f \in flights
    BY <1>5
  <1>9. QED
    BY <1>2, <1>4, <1>6, <1>7, <1>8, ChangeKeeps

(* A command that the tracker accepts.                                     *)
LEMMA AcceptKeeps ==
  ASSUME IInv, NEW f \in flights, f.at = "sent", Fenced(f), Fits(f),
         NEW text, text = Written(f),
         Change(f.id, text),
         Becomes(f, [f EXCEPT !.at = "done", !.doc = server'[f.id], !.of = None, !.since = 0]),
         UNCHANGED <<page, form, busy, history>>
  PROVE  IInv'
  <1>1. /\ f \in Flight /\ f.id \in Items /\ f.doc \in Doc /\ Sound(f) /\ server[f.id] \in Doc
        /\ f.op \in Commands
    BY Typed DEF Flight, IInv, Sound
  <1>2. text \in SUBSET Marks /\ Own(f.id, text) /\ Until(edits, text)
    <2>1. /\ server[f.id].text \in SUBSET Marks /\ Own(f.id, server[f.id].text)
          /\ Until(edits, server[f.id].text)
      BY <1>1 DEF Doc, IInv, Owned, Dated
    <2>2. /\ f.doc.text \in SUBSET Marks /\ Until(edits, f.doc.text)
          /\ f.op # "run" => Own(f.id, f.doc.text)
      BY <1>1 DEF Doc, Commands, Live, Sound, Fits
    <2>3. QED
      BY <2>1, <2>2 DEF Written, Own, Until
  <1>3. server' = [server EXCEPT ![f.id] = [rev |-> server[f.id].rev + 1, text |-> text]]
    BY DEF Change
  <1>4. server[f.id].rev + 1 \in Nat /\ server[f.id].rev + 1 <= server[f.id].rev + 1
    BY <1>1, Typed
  <1>5. /\ server'[f.id] = [rev |-> server[f.id].rev + 1, text |-> text]
        /\ server'[f.id] \in Doc /\ server'[f.id].text = text
        /\ server'[f.id].rev <= server'[f.id].rev
    BY <1>1, <1>2, <1>3, <1>4, Typed DEF Doc
  <1>6. 0 \in 0..MaxEdits
    BY BoundAssumption
  <1>7. PICK doc \in Doc : doc = server'[f.id]
    BY <1>5
  <1>8. PICK g : g = [f EXCEPT !.at = "done", !.doc = doc, !.of = None, !.since = 0]
    OBVIOUS
  <1>9. /\ g \in Flight /\ g.at = "done" /\ g.doc = doc /\ g.id = f.id /\ g.op = f.op
        /\ g.dirty = f.dirty
    BY <1>1, <1>6, <1>8 DEF Flight
  <1>10. flights' = (flights \ {f}) \cup {g}
    BY <1>7, <1>8 DEF Becomes
  <1>11. UNCHANGED <<shown, draft, dirty, live, form, busy, edits, clicks, strayed>>
    BY DEF page, history
  <1>12. Sound(g)'
    BY <1>1, <1>2, <1>5, <1>7, <1>9, <1>11 DEF Sound, Reply, Own, IInv, Owned, Commands
  <1>13. f.id = Config => g.doc = server'[Config]
    BY <1>7, <1>9
  <1>14. /\ flights' \subseteq Flight /\ edits <= edits' /\ edits' \in 0..MaxEdits
         /\ Until(edits', text)
    BY <1>2, <1>9, <1>10, <1>11, Typed
  <1>15. /\ \A h \in flights' : h \in flights \/ Sound(h)'
         /\ \A h \in flights' \ flights : h.id = Config /\ Reply(h) => h.doc = server'[Config]
    BY <1>9, <1>10, <1>12, <1>13
  <1> DEFINE i == f.id
  <1>16. i \in Items /\ Own(i, text) /\ Change(i, text)
    BY <1>1, <1>2
  <1> HIDE DEF i
  <1>17. QED
    BY <1>2, <1>11, <1>14, <1>15, <1>16, ChangeKeeps

(* A command that the tracker refuses.                                     *)
LEMMA RefuseKeeps ==
  ASSUME IInv, NEW f \in flights, f.at = "sent",
         Becomes(f, [Request EXCEPT !.op = f.op, !.click = f.click, !.at = "refused"]),
         UNCHANGED <<server, page, form, busy, history>>
  PROVE  IInv'
  <1>1. PICK g : g = [Request EXCEPT !.op = f.op, !.click = f.click, !.at = "refused"]
    OBVIOUS
  <1>2. f \in Flight /\ f.op \in Commands
    BY Typed DEF IInv, Sound
  <1>3. /\ g \in Flight /\ g.at = "refused" /\ g.op = f.op /\ g.id = Config /\ ~ g.dirty
        /\ Until(edits, g.doc.text)
    BY <1>1, <1>2, RequestTyped DEF Flight
  <1>4. flights' = (flights \ {f}) \cup {g}
    BY <1>1 DEF Becomes
  <1>5. UNCHANGED <<shown, draft, dirty, live, form, busy, edits, clicks, strayed>>
    BY DEF page, history
  <1>6. Sound(g)'
    BY <1>3, <1>5 DEF Sound, Reply
  <1>7. OneText'
    BY <1>3, <1>4, <1>5, TextStays DEF Copies, Reply, IInv, OneText
  <1>8. flights' \subseteq Flight /\ (\A h \in flights' : h \in flights \/ Sound(h)')
        /\ edits <= edits
    BY <1>3, <1>4, <1>6, Typed
  <1>9. QED
    BY <1>5, <1>7, <1>8, PageKeeps DEF IInv, TypeOK, Owned, Dated

LEMMA ServeKeeps ==
  ASSUME IInv, NEW f \in flights, Serve(f)
  PROVE  IInv'
  <1>1. PICK text : text = Written(f)
    OBVIOUS
  <1>2. CASE /\ Fenced(f) /\ Fits(f)
             /\ Change(f.id, Written(f))
             /\ Becomes(f, [f EXCEPT !.at = "done", !.doc = server'[f.id], !.of = None,
                                     !.since = 0])
    BY <1>1, <1>2, AcceptKeeps DEF Serve
  <1>3. CASE /\ ~(Fenced(f) /\ Fits(f))
             /\ Becomes(f, [Request EXCEPT !.op = f.op, !.click = f.click, !.at = "refused"])
             /\ UNCHANGED server
    BY <1>3, RefuseKeeps DEF Serve
  <1>4. QED
    BY <1>2, <1>3 DEF Serve

-----------------------------------------------------------------------------
(***************************************************************************)
(* The invariant.                                                          *)
(***************************************************************************)

LEMMA Initially == Init => IInv
  <1> SUFFICES ASSUME Init PROVE IInv
    OBVIOUS
  <1>1. 0 \in 0..MaxEdits /\ 0 \in 0..MaxClicks
    BY BoundAssumption
  <1>1a. live \in [Live -> [of : Tickets \cup {None}, text : SUBSET Marks]] /\ Spare
    BY DEF Init, Closed, Spare, Own, Until
  <1>2. TypeOK
    BY <1>1, <1>1a, RequestTyped, NoneAssumption DEF Init, TypeOK, NoTicket
  <1>3. Owned
    BY RequestTyped DEF Init, Owned, Own, Items
  <1>4. Dated
    BY RequestTyped DEF Init, Dated, Until, Items
  <1>5. OneText
    <2>1. server[Config] = Blank /\ form.doc = Blank /\ form.text = {} /\ flights = {}
      BY DEF Init, Items
    <2>2. \A c \in Copies : c = Blank
      BY <2>1 DEF Copies
    <2>3. QED
      BY <2>1, <2>2, RequestTyped DEF OneText
  <1>6. flights = {}
    BY DEF Init
  <1>7. QED
    BY <1>1a, <1>2, <1>3, <1>4, <1>5, <1>6 DEF IInv

LEMMA Stutters ==
  ASSUME IInv, UNCHANGED vars
  PROVE  IInv'
  <1>1. flights \subseteq Flight /\ edits <= edits /\ OneText'
    BY Typed DEF vars, IInv, OneText, Copies
  <1>2. QED
    BY <1>1, PageKeeps DEF vars, IInv, TypeOK, Owned, Dated

LEMMA NextStep == IInv /\ [Next]_vars => IInv'
  <1> SUFFICES ASSUME IInv, [Next]_vars PROVE IInv'
    OBVIOUS
  <1>1. ASSUME NEW t \in Tickets, Open(t) PROVE IInv'
    BY <1>1, OpenKeeps
  <1>2. CASE ShowQueue \/ Type \/ Cancel \/ TypeConfig
    BY <1>2, ShowQueueKeeps, TypeKeeps, CancelKeeps, TypeConfigKeeps
  <1>3. CASE Save \/ Run \/ SaveConfig \/ Refresh
    BY <1>3, SaveKeeps, RunKeeps, SaveConfigKeeps, RefreshKeeps
  <1>3a. ASSUME NEW k \in Live, TypeLive(k) \/ CancelLive(k) \/ SendLive(k) PROVE IInv'
    BY <1>3a, TypeLiveKeeps, CancelLiveKeeps, SendLiveKeeps
  <1>4. ASSUME NEW i \in Items, OthersEdit(i) PROVE IInv'
    BY <1>4, OthersEditKeeps
  <1>5. ASSUME NEW f \in flights, Proceed(f) \/ Lost(f) PROVE IInv'
    BY <1>5, ServeKeeps, AnswerKeeps, ReadKeeps, GotKeeps, LostKeeps DEF Proceed
  <1>6. QED
    BY <1>1, <1>2, <1>3, <1>3a, <1>4, <1>5, Stutters DEF Next

LEMMA Invariant == Spec => []IInv
  BY Initially, NextStep, PTL DEF Spec

(* What an operator typed for one ticket is never written into another,    *)
(* whatever replies arrive after the operator has moved on: save what a    *)
(* live editor held and sent off while another ticket was shown.           *)
THEOREM DraftsOfOneTicket == Spec => []DraftsApart
  <1>1. IInv => DraftsApart
    BY DEF IInv, DraftsApart, Owned, Own
  <1>2. QED
    BY <1>1, Invariant, PTL

-----------------------------------------------------------------------------
(***************************************************************************)
(* What a step may lose.                                                   *)
(***************************************************************************)

(* Only a command can drop text of an item, and only of its own item.      *)
LEMMA TextLost ==
  ASSUME IInv, [Next]_vars, NEW i \in Items, server[i].text \ server'[i].text # {}
  PROVE  \E f \in flights : /\ f.at = "sent" /\ f.id = i /\ Fenced(f) /\ Fits(f)
                            /\ f.op \in {"save", "description", "config"}
                            /\ server'[i].text = f.doc.text
  <1>1. PICK f \in flights : Serve(f) /\ server'[i] # server[i]
    <2>1. ASSUME NEW j \in Items, OthersEdit(j) PROVE server[i].text \subseteq server'[i].text
      BY <2>1, Typed DEF OthersEdit, Change
    <2>2. UNCHANGED vars => UNCHANGED server
      BY DEF vars
    <2>3. \A t \in Tickets : Open(t) => UNCHANGED server
      BY DEF Open
    <2>4. ShowQueue \/ Type \/ Cancel \/ TypeConfig \/ Refresh => UNCHANGED server
      BY DEF ShowQueue, Type, Cancel, TypeConfig, Refresh
    <2>4a. \A k \in Live : TypeLive(k) \/ CancelLive(k) \/ SendLive(k) => UNCHANGED server
      BY DEF TypeLive, CancelLive, SendLive, Click
    <2>5. Save \/ Run \/ SaveConfig => UNCHANGED server
      BY DEF Save, Run, SaveConfig, Click
    <2>6. \A f \in flights : Answer(f) \/ Read(f) \/ Got(f) \/ Lost(f) => UNCHANGED server
      BY DEF Answer, Read, Got, Lost
    <2>7. QED
      BY <2>1, <2>2, <2>3, <2>4, <2>4a, <2>5, <2>6 DEF Next, Proceed
  <1>2. /\ f.at = "sent" /\ Fenced(f) /\ Fits(f) /\ f.id \in Items /\ f.op \in Commands
        /\ Change(f.id, Written(f))
    BY <1>1, Typed DEF Serve, IInv, Sound, Flight
  <1>3. f.id = i /\ server'[i].text = Written(f)
    BY <1>1, <1>2, Typed DEF Change
  <1>4. QED
    BY <1>2, <1>3 DEF Commands, Live, Written

(* A change others make to a ticket while a save is on its way survives    *)
(* the save.                                                               *)
THEOREM RacingEditsSurvive == Spec => RacingEditsKept
  <1>1. IInv /\ [Next]_vars
        => [\A t \in Tickets : \A m \in server[t].text \ server'[t].text :
              \E f \in flights : f.op \in {"save", "description"} /\ m[2] <= f.since]_vars
    <2>1. SUFFICES ASSUME IInv, [Next]_vars, NEW t \in Tickets,
                          NEW m \in server[t].text \ server'[t].text
                   PROVE  \E f \in flights : f.op \in {"save", "description"}
                                               /\ m[2] <= f.since
      OBVIOUS
    <2>2. t \in Items /\ t # Config
      BY <2>1, Typed
    <2>3. PICK f \in flights : /\ f.at = "sent" /\ f.id = t /\ Fenced(f)
                               /\ f.op \in {"save", "description", "config"}
      BY <2>1, <2>2, TextLost
    <2>4. f.op \in {"save", "description"} /\ Until(f.since, server[t].text)
      BY <2>1, <2>2, <2>3 DEF IInv, Sound, Fenced
    <2>5. QED
      BY <2>1, <2>4 DEF Until
  <1>2. QED
    BY <1>1, Invariant, PTL DEF Spec, RacingEditsKept

(* The configuration form never writes over a configuration nobody saw.    *)
THEOREM ConfigSurvives == Spec => ConfigKept
  <1>1. IInv /\ [Next]_vars => [server[Config].text \subseteq server'[Config].text]_vars
    <2>1. SUFFICES ASSUME IInv, [Next]_vars,
                          server[Config].text \ server'[Config].text # {}
                   PROVE  FALSE
      OBVIOUS
    <2>2. PICK f \in flights : /\ f.at = "sent" /\ f.id = Config /\ Fenced(f) /\ Fits(f)
                               /\ f.op \in {"save", "description", "config"}
                               /\ server'[Config].text = f.doc.text
      BY <2>1, Typed, TextLost
    <2>3. f.op = "config"
      BY <2>1, <2>2, Typed DEF IInv, Sound, Live
    <2>4. server[Config].text \subseteq f.doc.text
      BY <2>1, <2>2, <2>3 DEF IInv, Sound, Fenced
    <2>5. QED
      BY <2>1, <2>2, <2>4
  <1>2. QED
    BY <1>1, Invariant, PTL DEF Spec, ConfigKept
=============================================================================
