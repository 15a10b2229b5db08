---------------------------- MODULE SettingsPage -----------------------------
(* The administrator's page of settings (/admin/settings) over the settings *)
(* every page of the tab shares: the form, its two drafts (the hotel's      *)
(* settings and the notification preferences of this browser) and what      *)
(* guards them when the tab or the page is left, and the exports of both,   *)
(* of which the browser keeps the newest.  The server takes a form only     *)
(* over the version it was loaded with; any request is repeated once.       *)
EXTENDS Integers, Sequences, FiniteSetsExt

CONSTANTS
  Texts,      \* contents of the form, and of the preferences
  Blank,      \* the content before anything was loaded
  None,
  MaxVisits,  \* bound on times the page is opened
  MaxTypes,   \* bound on changes of the two drafts
  MaxCalls,   \* bound on saves
  MaxLoads,   \* bound on times the settings are read
  MaxOthers,  \* bound on changes made by other people
  MaxExports, \* bound on exports
  MaxKept     \* how many exports the browser keeps

Tabs == {"general", "notifications", "backups"}

BlankAssumption == Blank \notin Texts /\ None \notin Texts \cup {Blank} \cup Tabs
BoundAssumption == MaxCalls \in Nat

VARIABLES
  tab,        \* the tab shown, None on any other page
  visit,      \* the number of times the page was opened
  shared,     \* hotel-settings, which all pages of the browser tab share
  form,       \* the form, with the version it was loaded with
  baseline,   \* the form as it was last loaded or saved
  loaded,     \* settingsLoaded
  saving,     \* isSaving
  loads,      \* reads not answered yet
  calls,      \* saves not answered yet
  prefs,      \* the preferences on the screen
  prefsBase,  \* and as they were last read or stored
  stored,     \* localStorage
  row,        \* the server
  made,       \* history: the version each save has written, 0 if none
  over,       \* history: the version that was written over
  told,       \* history: saves told as successes
  confirmed, typed, asked, last, others,
  exported,   \* exports made, told or not
  exports,    \* backupHistory: the exports on the screen, newest first
  kept,       \* the exports in localStorage
  files,      \* the exports downloaded
  taken,      \* history: the exports told as made
  removed     \* history: the exports removed

local == <<form, baseline, loaded, saving>>
drafts == <<prefs, prefsBase>>
history == <<made, over, told>>
exporting == <<exported, exports, kept, files, taken, removed>>
browser == <<stored, exporting>>
vars == <<tab, visit, shared, local, drafts, browser, loads, calls, row, history,
          confirmed, typed, asked, last, others>>

Rows == [text : Texts \cup {Blank}, version : Nat]
Click == 1 .. MaxCalls
Default == [text |-> Blank, version |-> 1]
Refused == [text |-> Blank, version |-> 0]

Init ==
  /\ tab = None /\ visit = 0 /\ shared = Default
  /\ form = Default /\ baseline = Default /\ loaded = FALSE /\ saving = FALSE
  /\ prefs = Blank /\ prefsBase = Blank /\ stored = Blank
  /\ loads = {} /\ calls = {}
  /\ row \in [text : Texts, version : {1}]
  /\ made = [n \in Click |-> 0] /\ over = [n \in Click |-> 0] /\ told = {}
  /\ confirmed = 0 /\ typed = 0 /\ asked = 0 /\ last = 0 /\ others = 0
  /\ exported = 0 /\ exports = <<>> /\ kept = <<>> /\ files = {} /\ taken = {} /\ removed = {}

-----------------------------------------------------------------------------
(* Opening and leaving the page, and changing its tab.                     *)

FormDirty == form # baseline
PrefsDirty == prefs # prefsBase
Dirty == tab # None /\ (FormDirty \/ PrefsDirty)

(* resetChanges: asked for when the page is opened and by Recargar.        *)
Ask(v) == asked' = asked + 1 /\ loads' = loads \cup {[visit |-> v, left |-> 1, answer |-> None]}

Open ==
  /\ tab = None /\ visit < MaxVisits /\ visit' = visit + 1 /\ tab' = "general"
  /\ form' = Default /\ baseline' = Default /\ loaded' = FALSE /\ saving' = FALSE
  /\ prefs' = stored /\ prefsBase' = stored
  /\ exports' = kept
  /\ Ask(visit + 1)
  /\ UNCHANGED <<shared, stored, exported, kept, files, taken, removed, calls, row, history,
                 confirmed, typed, last, others>>

(* onBeforeRouteLeave: never while saving; with a draft, if the user       *)
(* agrees to lose it.                                                      *)
LeaveGuard == ~saving /\ confirmed' = confirmed + IF Dirty THEN 1 ELSE 0

Leave ==
  /\ tab # None /\ LeaveGuard /\ tab' = None
  /\ UNCHANGED <<visit, shared, local, drafts, browser, loads, calls, row, history,
                 typed, asked, last, others>>

(* onBeforeRouteUpdate: the same for a change of tab, which keeps both     *)
(* drafts.                                                                 *)
SelectTab(t) ==
  /\ tab # None /\ t # tab /\ ~saving /\ tab' = t
  /\ UNCHANGED <<visit, shared, local, drafts, browser, loads, calls, row, history,
                 confirmed, typed, asked, last, others>>

-----------------------------------------------------------------------------
(* The form.  Until the settings are loaded, and while they are saved, all *)
(* of it is disabled, Recargar too.                                        *)

Enabled == tab = "general" /\ loaded /\ ~saving

Type(t) ==
  /\ Enabled /\ typed < MaxTypes /\ typed' = typed + 1
  /\ t # form.text /\ form' = [form EXCEPT !.text = t]
  /\ UNCHANGED <<tab, visit, shared, baseline, loaded, saving, drafts, browser, loads, calls, row,
                 history, confirmed, asked, last, others>>

Reload ==
  /\ Enabled /\ asked < MaxLoads /\ Ask(visit)
  /\ UNCHANGED <<tab, visit, shared, local, drafts, browser, calls, row, history, confirmed,
                 typed, last, others>>

Save ==
  /\ Enabled /\ last < MaxCalls /\ last' = last + 1 /\ saving' = TRUE
  /\ calls' = calls \cup {[n |-> last + 1, form |-> form, left |-> 1, answer |-> None]}
  /\ UNCHANGED <<tab, visit, shared, form, baseline, loaded, drafts, browser, loads, row, history,
                 confirmed, typed, asked, others>>

-----------------------------------------------------------------------------
(* GET and PUT /operations/settings.                                       *)

ServeLoad(l) ==
  /\ l \in loads /\ l.answer = None
  /\ loads' = (loads \ {l}) \cup {[l EXCEPT !.answer = row]}
  /\ UNCHANGED <<tab, visit, shared, local, drafts, browser, calls, row, history, confirmed,
                 typed, asked, last, others>>

SameVersion(c) == c.form.version = row.version

ServeSave(c) ==
  /\ c \in calls /\ c.answer = None
  /\ IF SameVersion(c)
     THEN /\ row' = [text |-> c.form.text, version |-> row.version + 1]
          /\ made' = [made EXCEPT ![c.n] = row.version + 1]
          /\ over' = [over EXCEPT ![c.n] = row.version]
          /\ calls' = (calls \ {c}) \cup {[c EXCEPT !.answer = row']}
     ELSE /\ calls' = (calls \ {c}) \cup {[c EXCEPT !.answer = Refused]}
          /\ UNCHANGED <<row, made, over>>
  /\ UNCHANGED <<tab, visit, shared, local, drafts, browser, loads, told, confirmed, typed,
                 asked, last, others>>

(* The shared settings keep the newer version, and that is what is shown.  *)
Keep(d) == IF d.version >= shared.version THEN d ELSE shared

Loaded(l) ==
  /\ l \in loads /\ l.answer # None /\ loads' = loads \ {l}
  /\ shared' = Keep(l.answer)
  /\ IF tab # None /\ l.visit = visit
     THEN form' = shared' /\ baseline' = shared' /\ loaded' = TRUE
     ELSE UNCHANGED <<form, baseline, loaded>>
  /\ UNCHANGED <<tab, visit, saving, drafts, browser, calls, row, history, confirmed, typed,
                 asked, last, others>>

LoadFails(l) ==
  /\ l \in loads
  /\ loads' = (loads \ {l}) \cup
       (IF l.left > 0 THEN {[l EXCEPT !.left = @ - 1, !.answer = None]} ELSE {})
  /\ UNCHANGED <<tab, visit, shared, local, drafts, browser, calls, row, history, confirmed,
                 typed, asked, last, others>>

Saved(c) ==
  /\ c \in calls /\ c.answer \notin {None, Refused} /\ calls' = calls \ {c}
  /\ shared' = c.answer /\ form' = c.answer /\ baseline' = c.answer /\ saving' = FALSE
  /\ told' = told \cup {c.n}
  /\ UNCHANGED <<tab, visit, loaded, drafts, browser, loads, row, made, over, confirmed, typed,
                 asked, last, others>>

(* A lost request, a lost answer or a conflict: once more, then told; the  *)
(* draft stays.                                                            *)
SaveFails(c) ==
  /\ c \in calls
  /\ IF c.left > 0
     THEN /\ calls' = (calls \ {c}) \cup {[c EXCEPT !.left = @ - 1, !.answer = None]}
          /\ UNCHANGED saving
     ELSE calls' = calls \ {c} /\ saving' = FALSE
  /\ UNCHANGED <<tab, visit, shared, form, baseline, loaded, drafts, browser, loads, row, history,
                 confirmed, typed, asked, last, others>>

-----------------------------------------------------------------------------
(* The preferences, which stay in the browser.                             *)

Prefer(t) ==
  /\ tab = "notifications" /\ typed < MaxTypes /\ typed' = typed + 1
  /\ t # prefs /\ prefs' = t
  /\ UNCHANGED <<tab, visit, shared, local, prefsBase, browser, loads, calls, row, history,
                 confirmed, asked, last, others>>

StorePrefs ==
  /\ tab = "notifications" /\ stored' = prefs /\ prefsBase' = prefs
  /\ UNCHANGED <<tab, visit, shared, local, prefs, exporting, loads, calls, row, history,
                 confirmed, typed, asked, last, others>>

(* Cancelar reads them back.                                               *)
ResetPrefs ==
  /\ tab = "notifications" /\ prefs' = stored /\ prefsBase' = stored
  /\ UNCHANGED <<tab, visit, shared, local, browser, loads, calls, row, history, confirmed, typed,
                 asked, last, others>>

-----------------------------------------------------------------------------
(* The exports: what the form and the preferences are at that moment, also *)
(* when the form has not been loaded.                                      *)

(* The tab of the exports: the newest beside its button Descargar, and the *)
(* list of all.                                                            *)
Listed == IF tab = "backups" THEN {exports[i] : i \in DOMAIN exports} ELSE {}

Ids(list) == {list[i].id : i \in DOMAIN list}
Newest(list) == SubSeq(list, 1, Min({Len(list), MaxKept}))

(* createBackup: shown, then stored, downloaded and told.  When the browser *)
(* does not store it, it is only shown, and the failure is told.           *)
Export(stores) ==
  /\ tab = "backups" /\ exported < MaxExports /\ exported' = exported + 1
  /\ LET e == [id |-> exported + 1, form |-> form, prefs |-> prefs]
     IN  /\ exports' = <<e>> \o exports
         /\ IF stores THEN /\ kept' = Newest(exports')
                           /\ files' = files \cup {e} /\ taken' = taken \cup {e.id}
                      ELSE UNCHANGED <<kept, files, taken>>
  /\ UNCHANGED <<tab, visit, shared, local, drafts, stored, removed, loads, calls, row, history,
                 confirmed, typed, asked, last, others>>

Download(e) ==
  /\ files' = files \cup {e}
  /\ UNCHANGED <<tab, visit, shared, local, drafts, stored, exports, kept, exported, taken,
                 removed, loads, calls, row, history, confirmed, typed, asked, last, others>>

(* removeBackup stores all that is left on the screen, which again may     *)
(* fail.                                                                   *)
Remove(e, stores) ==
  /\ removed' = removed \cup {e.id}
  /\ exports' = SelectSeq(exports, LAMBDA x : x.id # e.id)
  /\ kept' = IF stores THEN exports' ELSE kept
  /\ UNCHANGED <<tab, visit, shared, local, drafts, stored, exported, files, taken, loads, calls,
                 row, history, confirmed, typed, asked, last, others>>

OthersChange(t) ==
  /\ others < MaxOthers /\ others' = others + 1
  /\ row' = [text |-> t, version |-> row.version + 1]
  /\ UNCHANGED <<tab, visit, shared, local, drafts, browser, loads, calls, history, confirmed,
                 typed, asked, last>>

Next ==
  \/ Open \/ Leave \/ Reload \/ Save \/ StorePrefs \/ ResetPrefs
  \/ \E t \in Tabs : SelectTab(t)
  \/ \E t \in Texts : Type(t) \/ Prefer(t) \/ OthersChange(t)
  \/ \E stores \in BOOLEAN : Export(stores)
  \/ \E e \in Listed : Download(e) \/ \E stores \in BOOLEAN : Remove(e, stores)
  \/ \E l \in loads : ServeLoad(l) \/ Loaded(l) \/ LoadFails(l)
  \/ \E c \in calls : ServeSave(c) \/ Saved(c) \/ SaveFails(c)

Spec == Init /\ [][Next]_vars

-----------------------------------------------------------------------------
(* The page is saving exactly while its save is under way, and nothing of  *)
(* an unloaded form can be changed or saved.                               *)
TypeOK ==
  /\ tab \in Tabs \cup {None} /\ form \in Rows /\ shared \in Rows /\ row \in Rows
  /\ prefs \in Texts \cup {Blank} /\ stored \in Texts \cup {Blank}
  /\ saving <=> calls # {}
  /\ saving => tab # None
  /\ ~loaded => ~FormDirty

(* A save is told only if it wrote the settings, and what it wrote over is *)
(* what the form was loaded with: nobody's change goes unseen.             *)
ToldIsDone ==
  /\ \A n \in told : made[n] > 0
  /\ \A c \in calls : made[c.n] > 0 => over[c.n] = c.form.version

(* No read takes the page, or the tab, back to settings older than those   *)
(* it has: only the answer of its own save may, when it comes late.        *)
NeverBack ==
  told' = told =>
    /\ shared'.version >= shared.version
    /\ tab # None /\ loaded /\ tab' # None => form'.version >= form.version

(* A draft goes only when the user agrees, saves it, asks for the settings *)
(* again, or types it back.                                                *)
DraftsKept ==
  /\ Dirty /\ tab' = None => confirmed' > confirmed
  /\ FormDirty /\ form' # form => typed' > typed \/ told' # told \/ loads' # loads \/ visit' # visit
  /\ PrefsDirty /\ prefs' # prefs => typed' > typed \/ prefs' = stored

(* An export told as made has been downloaded, and the browser keeps it    *)
(* until it is removed or pushed out by newer ones, also by those it did   *)
(* not store, and whatever is closed and opened in between.                *)
ExportsKept ==
  /\ taken \subseteq {e.id : e \in files}
  /\ \A n \in taken \ removed : n \in Ids(kept) \/ exported >= n + MaxKept

(* The page stops saving.                                                  *)
SavingEnds == saving ~> ~saving
=============================================================================
