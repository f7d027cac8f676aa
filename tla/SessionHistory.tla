---------------------------- MODULE SessionHistory ----------------------------
(***************************************************************************)
(* The session history of the top-level browsing context: the @history     *)
(* list of browser.rb, its index, the "navigate later" slots that page     *)
(* scripts stash into, and every navigation that moves them (visit,        *)
(* refresh, go_back / go_forward, the page's location and history objects). *)
(*                                                                         *)
(* Ruby runs one call at a time, but page scripts run in the middle of it: *)
(* before a navigation commits (flush_outgoing_page_init) and while the    *)
(* new document boots.  `todo` is what is left of the Ruby call: the rest  *)
(* of its body and of the bodies that called it, innermost first.          *)
(*                                                                         *)
(* Indices are Ruby's plus one: idx = 0 is @history_idx == -1.  URLs,      *)
(* bodies and the redirects of a GET are left out; a document is a number, *)
(* and an entry's document is the one it belongs to, loaded again or not.  *)
(***************************************************************************)
EXTENDS Integers, Sequences, FiniteSets

CONSTANTS
    State,       \* values of history.state
    NoState,     \* null
    PageDelta,   \* deltas of history.go / back / forward that scripts pass
    Outcome,     \* what becomes of a request: "commit", "download", "raise" (the
                 \* application raises in it) and, of a POST, "redirect" to a GET
    MaxEntries,  \* bounds: nothing asks for an entry beyond it, and the entries
    MaxPosts,    \* of form submissions there may be, and navigations that bring
    MaxStrays    \* no document

ASSUME HistoryAssumption ==
    /\ NoState \notin State
    /\ PageDelta \subseteq Int \ {0}
    /\ Outcome \subseteq {"commit", "download", "redirect", "raise"}
    /\ MaxEntries \in Nat /\ {MaxPosts, MaxStrays} \subseteq Nat

NoForm == -1

Entry == [doc : Nat, kind : {"visit", "post", "push_state"}, state : State \cup {NoState},
          form : Nat \cup {NoForm}]

Slot == {"location", "reload", "traverse"}    \* NAV_INTENT_SLOTS of the top document

(* What a slot holds: @pending_history_traverse is its target, the others   *)
(* hold 1 for whatever they hold.                                           *)
NoIntent == 0
Nothing == [s \in Slot |-> NoIntent]

VARIABLES
    history,    \* @history; entry.form is the document whose form state it holds
    idx,        \* @history_idx + 1
    doc,        \* the document in the VM
    jsState,    \* history.js _state
    intents,    \* the NAV_INTENT_SLOTS
    saved,      \* flush_outgoing_page_init's `saved`
    flushed,    \* @flushed_nav_intents
    flushing,   \* @flushing_outgoing_page
    restoring,  \* @restoring_flushed_nav_intents
    todo,       \* what is left of the running Ruby call
    flushedBy,  \* history: the document that stashed `flushed`
    unreturned, \* history: a submission ended without putting `flushed` back
    strays      \* history: navigations that brought no document

slotVars == <<intents, saved, flushed, flushing, restoring, flushedBy, unreturned>>
vars == <<history, idx, doc, jsState, slotVars, todo, strays>>

----------------------------------------------------------------------------
(* The bodies of the Ruby methods, as the steps they still have to do. *)

Do(op) == [op |-> op, to |-> 0]

Drain == <<Do("location"), Do("reload"), Do("traverse")>>  \* drain_pending_navigation_once
Navigate == <<Do("flush"), Do("record"), Do("fetch"), Do("restore")>>
NavigatePost == <<Do("flush"), Do("recordPost"), Do("post")>>              \* no ensure
Reload == <<Do("flush"), Do("replay"), Do("putBack")>>                     \* refresh
TraverseTo(t) ==                                           \* perform_history_traverse
    <<Do("flush"), [op |-> "move", to |-> t], Do("replay"), Do("restoreForm"), Do("putBack")>>

Under(op) == \E i \in DOMAIN todo : todo[i].op = op
Kept(op) == IF Under(op) THEN <<Do(op)>> ELSE <<>>

(* What an `ensure` does of the calls under way: the restore of the         *)
(* innermost navigation, then the end of the restore that drains it.        *)
Ensured == Kept("restore") \o Kept("restored")

At(op) == todo # <<>> /\ Head(todo).op = op

Init ==
    /\ history = <<>>
    /\ idx = 0
    /\ doc = 0
    /\ jsState = NoState
    /\ intents = Nothing
    /\ saved = Nothing
    /\ flushed = Nothing
    /\ flushing = FALSE
    /\ restoring = FALSE
    /\ todo = <<>>
    /\ flushedBy = 0
    /\ unreturned = FALSE
    /\ strays = 0

----------------------------------------------------------------------------
(* The list. *)

(* record_history: drop the forward tail, append, point at the new entry. *)
Recorded(h, e) == Append(IF idx < Len(h) THEN SubSeq(h, 1, idx) ELSE h, e)

(* capture_outgoing_form_state. *)
Captured(h) == IF idx \in DOMAIN h THEN [h EXCEPT ![idx].form = doc] ELSE h

(* Mutant of SameDocument: the later of the two entries is not looked at.   *)
SameDocumentBetween(from, to) ==
    LET lo == IF from < to THEN from ELSE to
        hi == IF from < to THEN to ELSE from IN
    \A i \in lo + 1 .. hi - 1 : i \in DOMAIN history /\ history[i].kind = "push_state"

(* same_document_traversal? *)
SameDocument(from, to) ==
    LET lo == IF from < to THEN from ELSE to
        hi == IF from < to THEN to ELSE from IN
    \A i \in lo + 1 .. hi : i \in DOMAIN history /\ history[i].kind = "push_state"

(* A document no entry and no VM refers to. *)
FreshDoc ==
    CHOOSE d \in 1 .. Len(history) + 2 :
        /\ d # doc
        /\ \A i \in DOMAIN history : history[i].doc # d

(* The bound: an entry may be asked for. *)
Room == idx < MaxEntries /\ Len(history) <= MaxEntries

----------------------------------------------------------------------------
(* history_go. *)

(* Mutant of InRange: no lower bound.                                       *)
InRangeAbove(t) == t <= Len(history)

InRange(t) == 1 <= t /\ t <= Len(history)

(* A pushState traversal moves the index at once and fires popstate. *)
MoveInDocument(t) ==
    /\ idx' = t
    /\ jsState' = history[t].state
    /\ UNCHANGED <<history, doc, slotVars, strays>>

----------------------------------------------------------------------------
(* What a page script does: in an event handler or a timer, in the flush of *)
(* a navigation under way, or as its document boots.                        *)

PushState ==
    /\ At("script")
    /\ Room
    /\ \E s \in State \cup {NoState} :
          /\ jsState' = s
          /\ history' = Recorded(history, [doc |-> doc, kind |-> "push_state", state |-> s,
                                           form |-> NoForm])
    /\ idx' = Len(history')
    /\ UNCHANGED <<doc, slotVars, todo, strays>>

(* history_state: merged into the current entry, which keeps its kind. *)
ReplaceState ==
    /\ At("script")
    /\ \E s \in State \cup {NoState} :
          /\ jsState' = s
          /\ history' = IF idx \in DOMAIN history THEN [history EXCEPT ![idx].state = s]
                                                  ELSE history
    /\ UNCHANGED <<idx, doc, slotVars, todo, strays>>

Stash(slot, t) ==
    /\ intents' = [intents EXCEPT ![slot] = t]
    /\ UNCHANGED <<history, idx, doc, jsState, saved, flushed, flushing, restoring, flushedBy,
                   unreturned, strays>>

LocationAssign ==
    /\ At("script")
    /\ Room
    /\ Stash("location", 1)
    /\ UNCHANGED todo

LocationReload ==
    /\ At("script")
    /\ Stash("reload", 1)
    /\ UNCHANGED todo

(* Same-document: inline, unless the page is the one being left.  Otherwise *)
(* the target, computed now, waits for the script to return.                *)
HistoryGo ==
    /\ At("script")
    /\ \E delta \in PageDelta :
          /\ InRange(idx + delta)
          /\ IF SameDocument(idx, idx + delta)
             THEN ~flushing /\ MoveInDocument(idx + delta)
             ELSE Stash("traverse", idx + delta)
    /\ UNCHANGED todo

ScriptEnds ==
    /\ At("script")
    /\ todo' = Tail(todo)
    /\ UNCHANGED <<history, idx, doc, jsState, slotVars, strays>>

PageScript ==
    \/ PushState \/ ReplaceState \/ LocationAssign \/ LocationReload \/ HistoryGo
    \/ ScriptEnds

----------------------------------------------------------------------------
(* What the test calls. *)

Call(body) ==
    /\ todo = <<>>
    /\ todo' = body
    /\ UNCHANGED <<history, idx, doc, jsState, slotVars, strays>>

Visit == Room /\ Call(Navigate)

(* A form is submitted. *)
Submit ==
    /\ Room /\ history # <<>>
    /\ Cardinality({i \in DOMAIN history : history[i].kind = "post"}) < MaxPosts
    /\ Call(NavigatePost)

Refresh == Call(Reload)

(* execute_script, or a poll: scripts run, then the slots are drained.  The *)
(* blank document before the first visit runs none.                         *)
RunScripts == history # <<>> /\ Call(<<Do("script")>> \o Drain)

(* go_back / go_forward: history_go(delta, force: true). *)
GoBackOrForward(delta) ==
    /\ todo = <<>>
    /\ InRange(idx + delta)
    /\ IF SameDocument(idx, idx + delta)
       THEN MoveInDocument(idx + delta) /\ UNCHANGED todo
       ELSE Call(TraverseTo(idx + delta))

Test == Visit \/ Submit \/ Refresh \/ RunScripts \/ GoBackOrForward(-1) \/ GoBackOrForward(1)

----------------------------------------------------------------------------
(* The slots, one consume_pending_* each. *)

Consume(slot, body) ==
    /\ At(slot)
    /\ IF intents[slot] = NoIntent
       THEN todo' = Tail(todo) /\ UNCHANGED intents
       ELSE todo' = body \o Tail(todo) /\ intents' = [intents EXCEPT ![slot] = NoIntent]
    /\ UNCHANGED <<history, idx, doc, jsState, saved, flushed, flushing, restoring, flushedBy,
                   unreturned, strays>>

ConsumeSlots ==
    \/ Consume("location", Navigate)
    \/ Consume("reload", Reload)
    \/ Consume("traverse", TraverseTo(intents["traverse"]))

----------------------------------------------------------------------------
(* A navigation. *)

(* Nothing is due on the outgoing page (@timers_active is down). *)
FlushNothing ==
    /\ At("flush")
    /\ todo' = Tail(todo)
    /\ UNCHANGED <<history, idx, doc, jsState, slotVars, strays>>

(* The outgoing page's due tasks run with empty slots. *)
FlushBegins ==
    /\ At("flush")
    /\ history # <<>>
    /\ saved' = intents
    /\ intents' = Nothing
    /\ flushing' = TRUE
    /\ todo' = <<Do("script"), Do("flushed")>> \o Tail(todo)
    /\ UNCHANGED <<history, idx, doc, jsState, flushed, restoring, flushedBy, unreturned, strays>>

(* What @flushed_nav_intents becomes, and whose it is. *)
Stashed(slots) ==
    /\ flushed' = slots
    /\ flushedBy' = IF slots = Nothing THEN 0 ELSE doc
    /\ unreturned' = FALSE

FlushEnds ==
    /\ At("flushed")
    /\ Stashed(intents)
    /\ intents' = saved
    /\ saved' = Nothing
    /\ flushing' = FALSE
    /\ todo' = Tail(todo)
    /\ UNCHANGED <<history, idx, doc, jsState, restoring, strays>>

RecordedKind == IF At("record") THEN "visit" ELSE "post"

(* Mutant of RecordEntry: the form state is captured after the entry is     *)
(* recorded, into the new entry.                                            *)
RecordEntryThenCapture ==
    /\ At("record") \/ At("recordPost")
    /\ history' = Recorded(history, [doc |-> FreshDoc, kind |-> RecordedKind, state |-> NoState,
                                     form |-> doc])
    /\ idx' = Len(history')
    /\ todo' = Tail(todo)
    /\ UNCHANGED <<doc, jsState, slotVars, strays>>

(* navigate, navigate_post: the outgoing form state is kept, then the entry *)
(* is recorded, before the request is made.                                 *)
RecordEntry ==
    /\ At("record") \/ At("recordPost")
    /\ history' = Recorded(Captured(history),
                           [doc |-> FreshDoc, kind |-> RecordedKind, state |-> NoState,
                            form |-> NoForm])
    /\ idx' = Len(history')
    /\ todo' = Tail(todo)
    /\ UNCHANGED <<doc, jsState, slotVars, strays>>

(* perform_history_traverse: the outgoing form state is kept, then the      *)
(* index moves to the target.                                               *)
MoveIndex ==
    /\ At("move")
    /\ history' = Captured(history)
    /\ idx' = Head(todo).to
    /\ todo' = Tail(todo)
    /\ UNCHANGED <<doc, jsState, slotVars, strays>>

(* replay_history_entry, which does nothing for no entry. *)
Replay ==
    /\ At("replay")
    /\ todo' = (IF idx \notin DOMAIN history THEN <<>>
                ELSE IF history[idx].kind = "post" THEN <<Do("post")>>
                ELSE <<Do("fetch"), Do("restore")>>) \o Tail(todo)
    /\ UNCHANGED <<history, idx, doc, jsState, slotVars, strays>>

(* A submission's own request, and the GET it was redirected to: nothing    *)
(* about them is ensured.                                                   *)
OfPost == At("post") \/ At("redirected")

Requests == At("fetch") \/ OfPost

(* Mutant of Commit: what the flush stashed survives its page.              *)
CommitKeepsStash ==
    /\ Requests /\ "commit" \in Outcome
    /\ doc' = history[idx].doc
    /\ jsState' = NoState
    /\ todo' = <<Do("script")>> \o Tail(todo)
    /\ UNCHANGED <<history, idx, slotVars, strays>>

(* boot_response_into_ctx: a fresh VM, and the scripts of its boot. *)
Commit ==
    /\ Requests /\ "commit" \in Outcome
    /\ doc' = history[idx].doc
    /\ jsState' = NoState
    /\ Stashed(Nothing)
    /\ todo' = <<Do("script")>> \o Tail(todo)
    /\ UNCHANGED <<history, idx, intents, saved, flushing, restoring, strays>>

(* A navigation is over and no document came; if `lost`, what its flush     *)
(* stashed is not put back.                                                 *)
Strays(lost) ==
    /\ strays < MaxStrays
    /\ strays' = strays + 1
    /\ unreturned' = (unreturned \/ (lost /\ flushed # Nothing))
    /\ UNCHANGED <<history, idx, doc, jsState, intents, saved, flushed, flushing, restoring,
                   flushedBy>>

(* Mutant of Download: a submission that downloads puts nothing back.       *)
DownloadPutsNothingBack ==
    /\ Requests /\ "download" \in Outcome
    /\ todo' = Tail(todo)
    /\ Strays(At("redirected"))

(* A Content-Disposition response is saved; the page stays.  navigate_post  *)
(* puts back what the flush took itself, the GET it is redirected to, at    *)
(* depth 1, does not.                                                       *)
Download ==
    /\ Requests /\ "download" \in Outcome
    /\ todo' = (IF At("post") THEN <<Do("putBack")>> ELSE <<>>) \o Tail(todo)
    /\ Strays(At("redirected"))

(* A POST is answered by a redirect: a GET at depth 1. *)
Redirect ==
    /\ At("post") /\ "redirect" \in Outcome
    /\ todo' = <<Do("redirected")>> \o Tail(todo)
    /\ UNCHANGED <<history, idx, doc, jsState, slotVars, strays>>

(* The application raises: the page stays, and of the calls under way only  *)
(* what is ensured is still done.                                           *)
Raise ==
    /\ Requests /\ "raise" \in Outcome
    /\ todo' = Ensured
    /\ Strays(OfPost)

(* restore_form_state: the entry's form state is set on the new document. *)
RestoreForm ==
    /\ At("restoreForm")
    /\ todo' = Tail(todo)
    /\ UNCHANGED <<history, idx, doc, jsState, slotVars, strays>>

(* restore_flushed_nav_intents: unless this is the drain of an earlier      *)
(* restore, what the flush stashed goes back and is drained; an intent of   *)
(* the live page wins.                                                      *)
RestoreNothing ==
    /\ At("restore") \/ At("putBack")
    /\ flushed # Nothing => restoring
    /\ Stashed(Nothing)
    /\ todo' = Tail(todo)
    /\ UNCHANGED <<history, idx, doc, jsState, intents, saved, flushing, restoring, strays>>

RestoreIntents ==
    /\ At("restore") \/ At("putBack")
    /\ flushed # Nothing /\ ~restoring
    /\ Stashed(Nothing)
    /\ intents' = [s \in Slot |-> IF intents[s] = NoIntent THEN flushed[s] ELSE intents[s]]
    /\ restoring' = TRUE
    /\ todo' = Drain \o <<Do("restored")>> \o Tail(todo)
    /\ UNCHANGED <<history, idx, doc, jsState, saved, flushing, strays>>

RestoreEnds ==
    /\ At("restored")
    /\ restoring' = FALSE
    /\ todo' = Tail(todo)
    /\ UNCHANGED <<history, idx, doc, jsState, intents, saved, flushed, flushing, flushedBy,
                   unreturned, strays>>

Navigation ==
    \/ FlushNothing \/ FlushBegins \/ FlushEnds \/ RecordEntry \/ MoveIndex
    \/ Replay \/ Commit \/ Download \/ Redirect \/ Raise \/ RestoreForm
    \/ RestoreNothing \/ RestoreIntents \/ RestoreEnds

Next == Test \/ PageScript \/ ConsumeSlots \/ Navigation

Spec == Init /\ [][Next]_vars

----------------------------------------------------------------------------
(* Properties. *)

Op == {"script", "location", "reload", "traverse", "flush", "flushed", "record", "recordPost",
       "move", "replay", "fetch", "post", "redirected", "restoreForm", "putBack", "restore", "restored"}

Intents == [Slot -> Nat]

TypeOK ==
    /\ history \in Seq(Entry)
    /\ idx \in Nat
    /\ doc \in Nat
    /\ jsState \in State \cup {NoState}
    /\ intents \in Intents
    /\ saved \in Intents
    /\ flushed \in Intents
    /\ flushing \in BOOLEAN
    /\ restoring \in BOOLEAN
    /\ todo \in Seq([op : Op, to : Nat])
    /\ flushedBy \in Nat
    /\ unreturned \in BOOLEAN
    /\ strays \in Nat

(* @history_idx names an entry, or there is none: history_go's comment      *)
(* (browser.rb 2190-2192) makes an out-of-range traversal a no-op.          *)
IndexInRange == idx \in 0 .. Len(history) /\ (idx = 0 => history = <<>>)

(* Whenever a script or the test can look, the document in the VM is the    *)
(* one the entry at the index belongs to, however pushes, traversals and    *)
(* flushes interleave with the commits: else "a history index that doesn't  *)
(* describe the document" (browser.rb 2211).  A download or a raise breaks  *)
(* it for good, since the entry is recorded before the response is known.   *)
IndexDescribesDocument ==
    strays = 0 /\ (todo = <<>> \/ At("script")) /\ idx \in DOMAIN history =>
        history[idx].doc = doc

(* The form state an entry keeps was captured from the document the entry   *)
(* belongs to, never from the incoming one or from one further on, so a     *)
(* traversal cannot fill a page with another page's values.                 *)
FormStateOwn ==
    strays = 0 => \A i \in DOMAIN history : history[i].form \in {NoForm, history[i].doc}

(* popstate is only fired on the document whose pushState made the entry:   *)
(* the test on the kinds of the entries between the two, which survives     *)
(* truncation, reloads and replays, is the test on their documents.         *)
PopStateToOwner ==
    [][idx' # idx /\ UNCHANGED <<history, doc>> /\ ~At("move") /\ strays = 0 =>
          history[idx'].doc = doc]_vars

(* The intents a flush stashed are the live document's: a commit discards   *)
(* them with the page that asked (browser.rb 11980-11985), so restoring     *)
(* them never navigates a page that did not.                                *)
FlushedIntentsDie ==
    flushed # Nothing => flushedBy = doc

(* No test call returns or raises with the flush bookkeeping half done: a   *)
(* saved slot lost, the traversal block still on, or a stash left behind,   *)
(* whatever the navigations nested in it did.  The one stash it excuses is  *)
(* that of a submission whose own request raised, or whose redirect to a    *)
(* GET raised or downloaded; a POST that downloads is not excused.          *)
FlushBalanced ==
    todo = <<>> =>
        /\ saved = Nothing /\ ~flushing /\ ~restoring
        /\ flushed # Nothing => unreturned

(* "the paths that DON'T commit a new document (a Content-Disposition:      *)
(* attachment response, a raise mid-fetch): there the page lives on, so its *)
(* location.href = ... must still happen" (browser.rb 12012-12014): when    *)
(* the test's call is over, nothing a flush stashed is still waiting.       *)
IntentsReturned ==
    todo = <<>> => flushed = Nothing
=============================================================================
