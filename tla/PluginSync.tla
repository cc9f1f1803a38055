----------------------------- MODULE PluginSync -----------------------------
(***************************************************************************)
(* A remote source copied into a knowledge base, run after run: op=ingest  *)
(* of the plugins for Drive, Gmail, Google Calendar, Outlook mail and      *)
(* calendar, and Teams (src/plugins), with the cursor and the deletions    *)
(* that the host gives them (plugins/host).                                *)
(*                                                                         *)
(* The source is a log of changes; a cursor is the position up to which a  *)
(* run has read it, and nothing before the cursor is reported again.  For  *)
(* Teams an item is a message, and a position the time it last changed.    *)
(* Runs of one feed do not overlap (PluginFeed).                           *)
(***************************************************************************)
EXTENDS Integers, Sequences, FiniteSets, FiniteSetsExt

CONSTANTS Remotes,     \* those to look at: "gdrive", "gmail", "gcal", "outlookMail", "outlookCal", "teams"
          Items,
          Limit,       \* max_results
          MaxEdits,    \* bounds the changes at the source
          MaxSnags,    \* bounds failures, resets and expiries
          NoValue

VARIABLES plugin,    \* whose source this is
          log,       \* the source: a sequence of [item, gone]
          oldest,    \* cursors before this position have expired
          copy,      \* item -> the position of the version in the knowledge base, or 0
          cursor,    \* the stored cursor, or NoValue
          sync,      \* [mode, pc, todo, seen, token]: the run, or NoValue
          missed,    \* items a run passed over, for one of the reasons named below
          snags

syncVars == <<plugin, log, oldest, copy, cursor, sync, missed, snags>>

SyncInit ==
  /\ plugin \in Remotes
  /\ log = <<>> /\ oldest = 0 /\ copy = [i \in Items |-> 0]
  /\ cursor = NoValue /\ sync = NoValue /\ missed = {} /\ snags = 0

Now == Len(log)
Newest(i) == Max({0} \cup {n \in 1..Now : log[n].item = i})
Version(i) == IF Newest(i) = 0 \/ log[Newest(i)].gone THEN 0 ELSE Newest(i)
Since(c) == {i \in Items : Newest(i) > c}
Entry(i) == [item |-> i, at |-> Version(i)]
Added(c) == {n \in c + 1..Now : ~log[n].gone}

Snag == snags < MaxSnags /\ snags' = snags + 1
Smooth == UNCHANGED snags
-----------------------------------------------------------------------------
(* The source. *)

Mail == {"gmail", "outlookMail"}

\* A file, an event or a message changes; a mail only arrives.
Change(i) ==
  /\ Now < MaxEdits /\ (plugin \in Mail => Newest(i) = 0)
  /\ log' = Append(log, [item |-> i, gone |-> FALSE])
  /\ UNCHANGED <<plugin, oldest, copy, cursor, sync, missed, snags>>

\* Messages that were taken back are not looked for.
Remove(i) ==
  /\ Now < MaxEdits /\ Version(i) # 0 /\ plugin # "teams"
  /\ log' = Append(log, [item |-> i, gone |-> TRUE])
  /\ UNCHANGED <<plugin, oldest, copy, cursor, sync, missed, snags>>

\* The source forgets its history: cursors before now are answered with 410.
HistoryGone ==
  /\ plugin \notin {"gdrive", "teams"} /\ oldest < Now /\ oldest' = Now /\ Snag
  /\ UNCHANGED <<plugin, log, copy, cursor, sync, missed>>

-----------------------------------------------------------------------------
(* A run begins, lists or asks for changes, applies them one by one. *)

\* Without a cursor, or told to leave it aside, or unable to read it, a run is a
\* full one; Drive forgets the cursor when it is told to.
Start ==
  /\ sync = NoValue
  /\ \E aside \in BOOLEAN :
       /\ IF aside THEN Snag ELSE Smooth
       /\ \E forget \in BOOLEAN :
            /\ forget => aside /\ plugin = "gdrive"
            /\ cursor' = IF forget THEN NoValue ELSE cursor
       /\ sync' = [mode |-> IF cursor = NoValue \/ aside THEN "full" ELSE "delta", pc |-> "fetch",
                   todo |-> {}, seen |-> [i \in Items |-> NoValue], token |-> NoValue]
  /\ UNCHANGED <<plugin, log, oldest, copy, missed>>

Fetching(p, mode) == plugin = p /\ sync # NoValue /\ sync.pc = "fetch" /\ sync.mode = mode
Expired == cursor < oldest
Stays == UNCHANGED <<plugin, log, oldest, copy>>

\* What was fetched, read at this moment.
Got(pc, todo, token) ==
  sync' = [sync EXCEPT !.pc = pc, !.todo = todo, !.token = token, !.seen = [i \in Items |-> Now]]

Present == {i \in Items : Version(i) # 0}
NewestFew(S) == {i \in S : Cardinality({j \in S : Newest(j) > Newest(i)}) < Limit}

\* Of the items that a run could correct it takes some, and passes over the others:
\* what it does not take it does not report as missing, and does not come back to.
Left(of, taken) == missed' = missed \cup {i \in of \ taken : copy[i] # Version(i)}
Takes(taken, of, pc, token) == Got(pc, {Entry(i) : i \in taken}, token) /\ Left(of, taken)

\* A full run corrects what it lists.  Files too large, of another type or in another
\* folder are out.
GdriveScan ==
  /\ Fetching("gdrive", "full")
  /\ \E out \in SUBSET Present : Takes(Present \ out, Items, "apply", NoValue)
  /\ Stays /\ Smooth /\ UNCHANGED cursor

\* And so they are when they change; removals are left out unless delete_missing is
\* set, which it is not by default.
GdriveChanges ==
  /\ Fetching("gdrive", "delta")
  /\ \E out \in SUBSET Present, deletes \in BOOLEAN :
       LET kept == IF deletes THEN {} ELSE Items \ Present
       IN  Takes(Since(cursor) \ (out \cup kept), Since(cursor), "apply", Now)
  /\ Stays /\ Smooth /\ UNCHANGED cursor

\* added_ids[:max_results]: the first added are fetched, and the rest given up.
GmailHistory ==
  /\ Fetching("gmail", "delta") /\ ~Expired
  /\ LET few == {n \in Added(cursor) : Cardinality({k \in Added(cursor) : k < n}) < Limit} IN
       /\ Got("apply", {[item |-> log[n].item, at |-> n] : n \in few}
                         \cup {[item |-> log[n].item, at |-> 0] : n \in cursor + 1..Now \ Added(cursor)}, Now)
       /\ missed' = missed \cup {log[n].item : n \in Added(cursor) \ few}
  /\ Stays /\ Smooth /\ UNCHANGED cursor

\* Mails before the last since_hours, or not of query_filter, are out.  Without a
\* message the run ends before it stores a cursor.
GmailList ==
  /\ Fetching("gmail", "full")
  /\ \E out \in SUBSET Present :
       LET few == NewestFew(Present \ out) IN
         IF few = {} THEN sync' = NoValue /\ Left(Items, few) ELSE Takes(few, Items, "apply", NoValue)
  /\ Stays /\ Smooth /\ UNCHANGED cursor

\* Events further than since_hours from the first full run's time are out, of that
\* run and perhaps of what its cursor reports; the cancelled ones are listed too.
GcalEvents ==
  /\ \/ Fetching("gcal", "delta") /\ ~Expired
        /\ \E out \in SUBSET Items : Takes(Since(cursor) \ out, Since(cursor), "apply", Now)
     \/ Fetching("gcal", "full")
        /\ \E out \in SUBSET Items : Takes(Since(0) \ out, Items, "apply", Now)
  /\ Stays /\ Smooth /\ UNCHANGED cursor

\* The deltaLink carries since_hours and query_filter of the run that asked for it.
OutlookMailDelta ==
  /\ Fetching("outlookMail", "delta") /\ ~Expired
  /\ \E out \in SUBSET Present : Takes(Since(cursor) \ out, Since(cursor), "apply", Now)
  /\ Stays /\ Smooth /\ UNCHANGED cursor

OutlookMailList ==
  /\ Fetching("outlookMail", "full")
  /\ \E out \in SUBSET Present : Takes(NewestFew(Present \ out), Items, "token", NoValue)
  /\ Stays /\ Smooth /\ UNCHANGED cursor

\* Events out of the window are out, here too.  _fetch_all_pages stops at the limit,
\* with the deltaLink only if the page that reached it was the last; what that page
\* holds beyond the limit is given up.
OutlookCalPages ==
  /\ Fetching("outlookCal", "full") \/ (Fetching("outlookCal", "delta") /\ ~Expired)
  /\ LET of == IF sync.mode = "full" THEN Items ELSE Since(cursor) IN
       \E out \in SUBSET Items :
         LET all == IF sync.mode = "full" THEN Present \ out ELSE Since(cursor) \ out
             few == {i \in all : Cardinality({j \in all : Newest(j) < Newest(i)}) < Limit}
         IN  \/ Takes(few, of, "apply", Now)
             \/ /\ Cardinality(all) >= Limit /\ UNCHANGED missed
                /\ Got("apply", {Entry(i) : i \in few}, NoValue)
  /\ Stays /\ Smooth /\ UNCHANGED cursor

\* The messages c of one chat since the cursor, or of the last since_hours, the newest
\* max_messages_per_chat of them; those without text are out.  Chats beyond max_chats
\* are not asked, and map_safe passes over those that fail.  Which messages make a
\* chat is left open.
TeamsChat(c) ==
  /\ plugin = "teams" /\ sync # NoValue /\ sync.pc = "fetch"
  /\ \A i \in c : sync.seen[i] = NoValue
  /\ \E since \in IF sync.mode = "full" THEN 0..Now ELSE {cursor}, reached \in BOOLEAN, empty \in SUBSET c :
       LET new   == c \cap Since(since)
           taken == IF reached THEN NewestFew(new) \ empty ELSE {}
       IN  /\ sync' = [sync EXCEPT !.seen = [i \in Items |-> IF i \in c THEN Now ELSE @[i]],
                                   !.todo = @ \cup {Entry(i) : i \in taken}]
           /\ Left(IF sync.mode = "full" THEN c ELSE new, taken)
  /\ Stays /\ Smooth /\ UNCHANGED cursor

\* The newest message taken becomes the cursor, one for all chats: what came to a chat
\* after it was read may lie before it.
TeamsFetched ==
  /\ plugin = "teams" /\ sync # NoValue /\ sync.pc = "fetch" /\ \A i \in Items : sync.seen[i] # NoValue
  /\ LET times == {e.at : e \in sync.todo} \cup (IF sync.mode = "full" THEN {0} ELSE {cursor})
     IN /\ sync' = [sync EXCEPT !.pc = "apply", !.token = IF Max(times) = 0 THEN NoValue ELSE Max(times)]
        /\ missed' = missed \cup
             {i \in Items : \E n \in sync.seen[i] + 1..Max(times) : log[n].item = i}
  /\ Stays /\ Smooth /\ UNCHANGED cursor

\* 410: Gmail (for any error) and the calendar of Outlook list everything, Outlook
\* mail also forgets the cursor, and the Google calendar does neither.
Gone ==
  /\ sync # NoValue /\ sync.pc = "fetch" /\ sync.mode = "delta" /\ Expired
  /\ CASE plugin = "gcal" -> sync' = NoValue /\ UNCHANGED <<cursor, snags>>
       [] plugin = "outlookMail" ->
            /\ sync' = [sync EXCEPT !.mode = "full"]
            /\ \/ cursor' = NoValue /\ Smooth
               \/ cursor' = cursor /\ Snag
       [] OTHER -> sync' = [sync EXCEPT !.mode = "full"] /\ UNCHANGED <<cursor, snags>>
  /\ Stays /\ UNCHANGED missed

-----------------------------------------------------------------------------
\* Drive and Gmail delete first, and read the content of an item only now.
Late == {"gdrive", "gmail"}
MayApply(e) ==
  /\ sync # NoValue /\ sync.pc = "apply" /\ e \in sync.todo
  /\ plugin \in Late /\ e.at # 0 => \A d \in sync.todo : d.at # 0

Result(e) ==
  IF plugin \notin Late THEN {e.at}
  ELSE IF e.at = 0 THEN {0}
  ELSE IF Version(e.item) # 0 THEN {Version(e.item)}
  ELSE {copy[e.item]} \cup (IF plugin = "gdrive" THEN {e.at} ELSE {})  \* in the trash, or gone

Done(e) == sync' = [sync EXCEPT !.todo = @ \ {e}]

Apply(e) ==
  /\ MayApply(e) /\ Done(e)
  /\ \E v \in Result(e) :
       /\ copy' = [copy EXCEPT ![e.item] = v]
       /\ missed' = IF v = Version(e.item) THEN missed \ {e.item} ELSE missed
  /\ UNCHANGED <<plugin, log, oldest, cursor, snags>>

\* An item that cannot be fetched, stored or deleted is passed over: reported, and
\* not tried again.
PassOver(e) == missed' = missed \cup {e.item}
Skip(e) ==
  /\ MayApply(e) /\ plugin # "teams" /\ (plugin = "gcal" => e.at = 0) /\ Snag
  /\ Done(e) /\ PassOver(e)
  /\ Stays /\ UNCHANGED cursor

\* Slip: what could not be stored is left out, and the run goes on.
AbortNever == sync' = [sync EXCEPT !.todo = {}] /\ UNCHANGED missed

\* The run ends without a cursor; Gmail lists everything after a failed delta.
Abort ==
  /\ sync' = IF plugin = "gmail" /\ sync.mode = "delta"
               THEN [sync EXCEPT !.mode = "full", !.pc = "fetch", !.todo = {}, !.token = NoValue]
               ELSE NoValue
  /\ UNCHANGED missed

\* A request to the source, or storing an item, raises.  What Outlook cannot store
\* it passes over.
Raises ==
  /\ sync # NoValue /\ Snag
  /\ \/ sync.pc = "fetch"
     \/ sync.pc = "apply" /\ plugin \notin {"outlookMail", "outlookCal"} /\ \E e \in sync.todo : e.at # 0
  /\ Abort
  /\ Stays /\ UNCHANGED cursor

\* The process of the run dies.
Dies == sync # NoValue /\ Snag /\ sync' = NoValue /\ Stays /\ UNCHANGED <<cursor, missed>>

\* The position is asked for after the listing: Drive and Gmail after everything is
\* applied, Outlook mail before.  What changed in between lies before it.
GetToken ==
  /\ sync # NoValue /\ sync.mode = "full"
  /\ \/ sync.pc = "apply" /\ sync.todo = {} /\ plugin \in Late
     \/ sync.pc = "token"
  /\ LET next == IF plugin \in Late THEN "save" ELSE "apply" IN
       \/ /\ sync' = [sync EXCEPT !.pc = next, !.token = Now]
          /\ missed' = missed \cup {i \in Items : Newest(i) > sync.seen[i]}
       \/ sync' = [sync EXCEPT !.pc = next] /\ UNCHANGED missed   \* no answer, or no deltaLink
  /\ Stays /\ Smooth /\ UNCHANGED cursor

\* cursor.set and set_safe: a cursor that cannot be stored is left as it was.
SaveCursor ==
  /\ sync # NoValue
  /\ \/ sync.pc = "save"
     \/ sync.pc = "apply" /\ sync.todo = {} /\ ~(plugin \in Late /\ sync.mode = "full")
  /\ sync' = NoValue
  /\ \/ cursor' = (IF sync.token = NoValue THEN cursor ELSE sync.token) /\ Smooth
     \/ UNCHANGED cursor /\ Snag
  /\ Stays /\ UNCHANGED missed

SyncNext ==
  \/ \E i \in Items : Change(i) \/ Remove(i)
  \/ \E c \in SUBSET Items : c # {} /\ TeamsChat(c)
  \/ HistoryGone \/ Start \/ GdriveScan \/ GdriveChanges \/ GmailHistory \/ GmailList \/ GcalEvents
  \/ OutlookMailDelta \/ OutlookMailList \/ OutlookCalPages \/ TeamsFetched \/ Gone
  \/ \E e \in [item : Items, at : 0..MaxEdits] : Apply(e) \/ Skip(e)
  \/ Raises \/ Dies \/ GetToken \/ SaveCursor

SyncSpec == SyncInit /\ [][SyncNext]_syncVars
-----------------------------------------------------------------------------
\* What changed at the source before the cursor is never reported again.  It is in the
\* knowledge base as it is at the source, except for items that a run failed to fetch,
\* store or delete, that came between a listing and its position, or that were left out:
\* removed files, unless delete_missing is set; what lies out of the feed's filters or
\* the time window of a full run; and what lies beyond max_results, max_chats or
\* max_messages_per_chat.  These the cursor leaves behind for good, until they change.
CursorMeansSynced ==
  cursor # NoValue => \A i \in Items \ missed : Newest(i) <= cursor => copy[i] = Version(i)

\* The comment of the Google calendar on 410: drop to full window next time.
ExpiredIsDropped ==
  [][sync # NoValue /\ sync' = NoValue /\ cursor # NoValue => (Expired => cursor' # cursor)]_syncVars
=============================================================================
