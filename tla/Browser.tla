------------------------------ MODULE Browser ------------------------------
(***************************************************************************)
(* tools/browser.py, agent/browser_lock.py and tools/autofill.py: the one  *)
(* Chrome profile of all processes, its lock, the context a process keeps  *)
(* between calls, and the two steps of a login on the page it shows.       *)
(***************************************************************************)
EXTENDS Integers, FiniteSets

CONSTANTS
    Threads,      \* threads that call browser tools
    Processes,
    ProcessOf,    \* the process of each thread
    Sites,        \* sites with a saved login
    MaxLaunches,  \* bound: launches of Chrome
    MaxDeaths     \* bound: Chrome killed or closed, processes lost

\* What is assumed of the constants.
ThreadsAssumption == ProcessOf \in [Threads -> Processes]
BoundsAssumption == MaxLaunches \in Nat /\ MaxDeaths \in Nat

VARIABLES
    owner,        \* the process with the flock on chrome-profile.lock
    chrome,       \* the launch whose Chrome has the profile open, or NoLaunch
    shown,        \* the site on its page, or Elsewhere
    playwright,   \* _playwright of each process: the launch whose Chrome it drives, if any
    context,      \* _context of each process
    login,        \* _pending_confirmation of each process
    step,         \* where each thread is
    tool,         \* the tool it runs, its site, its try, the context it holds
    launches, deaths,
    filled,       \* history: what the last confirm_login typed: the page, the screen of
                  \*   the login, and whether the page had moved since it was looked at
    moved,        \* history: threads whose page moved after confirm_login looked at it
    raced,        \* history: two threads of a process were launching or discarding at once
    stranded      \* history: the launch whose Chrome ran on after a stop() that raised

vars == <<owner, chrome, shown, playwright, context, login, step, tool, launches, deaths,
          filled, moved, raced, stranded>>

NoLaunch == 0
Launches == NoLaunch .. MaxLaunches
Nowhere == "nowhere"
Nobody == "nobody"
NobodyAssumption == Nobody \notin Processes /\ Nowhere \notin Sites

Names == {"open", "fill", "confirm"}
NoTool == [name |-> "none", site |-> Nowhere, first |-> TRUE, handle |-> NoLaunch]

TypeOK ==
    /\ owner \in Processes \cup {Nobody}
    /\ chrome \in Launches
    /\ shown \in Sites \cup {Nowhere}
    /\ playwright \in [Processes -> Launches]
    /\ context \in [Processes -> Launches]
    /\ login \in [Processes -> Sites \cup {Nowhere}]
    /\ step \in [Threads -> {"idle", "wanting", "locking", "launching", "paging", "failed", "ready", "checked"}]
    /\ tool \in [Threads -> [name : Names \cup {"none"}, site : Sites \cup {Nowhere},
                             first : BOOLEAN, handle : Launches]]
    /\ launches \in Launches /\ deaths \in 0 .. MaxDeaths
    /\ filled \in SUBSET [site : Sites, page : Sites \cup {Nowhere}, screen : 1 .. 2, late : BOOLEAN]
    /\ moved \in SUBSET Threads
    /\ raced \in BOOLEAN
    /\ stranded \in Launches

Init ==
    /\ owner = Nobody /\ chrome = NoLaunch /\ shown = Nowhere
    /\ playwright = [p \in Processes |-> NoLaunch]
    /\ context = [p \in Processes |-> NoLaunch]
    /\ login = [p \in Processes |-> Nowhere]
    /\ step = [t \in Threads |-> "idle"]
    /\ tool = [t \in Threads |-> NoTool]
    /\ launches = 0 /\ deaths = 0 /\ filled = {} /\ moved = {}
    /\ raced = FALSE /\ stranded = NoLaunch

browserVars == <<owner, chrome, shown, playwright, context, launches, deaths, raced, stranded>>
Here(t) == ProcessOf[t]
GoTo(t, s) == step' = [step EXCEPT ![t] = s]
Return(t) == GoTo(t, "idle") /\ tool' = [tool EXCEPT ![t] = NoTool]

----------------------------------------------------------------------------
\* _get_context: the context of the process, when there is one.
Look(t, name, site, first) ==
    LET c == context[Here(t)] IN
    /\ GoTo(t, IF c = NoLaunch THEN "locking" ELSE "paging")
    /\ tool' = [tool EXCEPT ![t] = [name |-> name, site |-> site, first |-> first, handle |-> c]]

\* open_and_read, search_on_page, click_on_page and fill_login begin with the page.
Call(t, name, site) ==
    /\ step[t] = "idle" /\ name \in {"open", "fill"}
    /\ Look(t, name, site, TRUE)
    /\ filled' = {}
    /\ UNCHANGED <<browserVars, login, moved>>

\* confirm_login begins with the pending login: another site's is kept, an expired one
\* dropped, the right one used up before the page is looked for.
Confirm(t, site) ==
    /\ step[t] = "idle"
    /\ login[Here(t)] = site
    /\ login' = [login EXCEPT ![Here(t)] = Nowhere]
    /\ \/ /\ GoTo(t, "wanting")
          /\ tool' = [tool EXCEPT ![t] = [name |-> "confirm", site |-> site, first |-> TRUE,
                                          handle |-> NoLaunch]]
       \/ UNCHANGED <<step, tool>>
    /\ filled' = {}
    /\ UNCHANGED <<browserVars, moved>>

LookForContext(t) ==
    /\ step[t] = "wanting"
    /\ Look(t, tool[t].name, tool[t].site, tool[t].first)
    /\ UNCHANGED <<browserVars, login, filled, moved>>

\* Another thread of the process has found no context either.
NoteRace(t) ==
    raced' = (raced \/ \E u \in Threads \ {t} :
                           Here(u) = Here(t) /\ step[u] \in {"locking", "launching"})

\* Mutant of MayLock: the lock file is written to and not locked.
AlwaysLocks(t) == TRUE

MayLock(t) == owner \in {Nobody, Here(t)}

\* try_acquire: also a success when the process has the lock.  Otherwise the browser is
\* busy, which is not tried again.
Acquire(t) ==
    /\ step[t] = "locking"
    /\ \/ /\ MayLock(t)
          /\ owner' = Here(t)
          /\ GoTo(t, "launching")
          /\ UNCHANGED tool
       \/ /\ ~MayLock(t)
          /\ Return(t)
          /\ UNCHANGED owner
    /\ NoteRace(t)
    /\ UNCHANGED <<chrome, shown, playwright, context, launches, deaths, login, filled, moved, stranded>>

\* release: only the process's own lock.
Unlocked(p) == IF owner = p THEN Nobody ELSE owner

\* Mutant of AfterFailure: a launch that failed keeps the lock.
KeepsLock(t) == owner

AfterFailure(t) == Unlocked(Here(t))

\* Chrome opens the profile unless some Chrome has it.  A launch that fails, before or
\* after a new playwright took the place of the old one, gives the lock back and raises.
Launch(t) ==
    /\ step[t] = "launching" /\ launches < MaxLaunches
    /\ launches' = launches + 1
    /\ \/ /\ chrome = NoLaunch
          /\ chrome' = launches'
          /\ playwright' = [playwright EXCEPT ![Here(t)] = launches']
          /\ shown' = Nowhere
          /\ context' = [context EXCEPT ![Here(t)] = launches']
          /\ tool' = [tool EXCEPT ![t].handle = launches']
          /\ GoTo(t, "paging")
          /\ UNCHANGED owner
       \/ /\ playwright' \in {playwright, [playwright EXCEPT ![Here(t)] = NoLaunch]}
          /\ owner' = AfterFailure(t)
          /\ GoTo(t, "failed")
          /\ UNCHANGED <<chrome, shown, context, tool>>
    /\ NoteRace(t)
    /\ UNCHANGED <<deaths, login, filled, moved, stranded>>

\* _get_page: a context whose Chrome is gone raises; so may one whose Chrome runs (no new
\* tab, or a thread other than the one that launched it).
GetPage(t) ==
    /\ step[t] = "paging"
    /\ \/ tool[t].handle = chrome /\ GoTo(t, "ready") /\ UNCHANGED tool
       \/ GoTo(t, "failed") /\ tool' = [tool EXCEPT ![t].handle = NoLaunch]
    /\ UNCHANGED <<browserVars, login, filled, moved>>

Drives(p) == chrome # NoLaunch /\ chrome = playwright[p]

\* _playwright.stop() ends the Chrome it drives, or raises, which nobody sees.
Stop(p) ==
    \/ chrome' = (IF Drives(p) THEN NoLaunch ELSE chrome) /\ UNCHANGED stranded
    \/ Drives(p) /\ stranded' = chrome /\ UNCHANGED chrome

\* _discard_dead_context gives up the context and the lock whatever came of stop(); then
\* the one retry of _get_live_page.
Discard(t) ==
    /\ step[t] = "failed" /\ tool[t].first
    /\ Stop(Here(t))
    /\ playwright' = [playwright EXCEPT ![Here(t)] = NoLaunch]
    /\ context' = [context EXCEPT ![Here(t)] = NoLaunch]
    /\ owner' = Unlocked(Here(t))
    /\ GoTo(t, "wanting")
    /\ tool' = [tool EXCEPT ![t].first = FALSE]
    /\ NoteRace(t)
    /\ UNCHANGED <<shown, launches, deaths, login, filled, moved>>

\* The second failure leaves the tool.
Raise(t) ==
    /\ step[t] = "failed" /\ ~tool[t].first
    /\ Return(t)
    /\ UNCHANGED <<browserVars, login, filled, moved>>

\* The page goes to another site while some thread has looked at it and not yet typed.
Looked == {u \in Threads : step[u] = "checked"}
Show(s) == shown' = s /\ moved' = IF s = shown THEN moved ELSE Looked

\* open_and_read, search_on_page and click_on_page: wherever the page leads.
Navigate(t) ==
    /\ tool[t].name = "open"
    /\ \E s \in Sites \cup {Nowhere} : Show(s)
    /\ UNCHANGED login

Preview(t) ==
    /\ tool[t].name = "fill" /\ shown = tool[t].site
    /\ login' = [login EXCEPT ![Here(t)] = tool[t].site]
    /\ UNCHANGED <<shown, moved>>

\* The tool acts on the page.  A preview that does not match the page is refused; so is
\* any action when Chrome has died since.
Act(t) ==
    /\ step[t] = "ready" /\ tool[t].name # "confirm"
    /\ \/ chrome = tool[t].handle /\ (Navigate(t) \/ Preview(t))
       \/ UNCHANGED <<shown, moved, login>>
    /\ Return(t)
    /\ UNCHANGED <<owner, chrome, playwright, context, launches, deaths, filled, raced, stranded>>

\* Mutant of Matches: the domain is taken from the preview.
MatchesPreview(t) == TRUE

Matches(t) == shown = tool[t].site

\* confirm_login looks at the domain of the page again,
CheckDomain(t) ==
    /\ step[t] = "ready" /\ tool[t].name = "confirm"
    /\ \/ /\ chrome = tool[t].handle /\ Matches(t)
          /\ GoTo(t, "checked") /\ UNCHANGED tool
       \/ Return(t)
    /\ UNCHANGED <<owner, chrome, shown, playwright, context, launches, deaths, login, filled, moved,
                   raced, stranded>>

\* then fills in the login of one screen, or the user name and, on the screen that
\* follows, the password; or finds no field.
FillIn(t) ==
    /\ step[t] = "checked"
    /\ LET Typed(page, n) == [site |-> tool[t].site, page |-> page, screen |-> n, late |-> t \in moved] IN
          \/ UNCHANGED <<shown, filled>>
          \/ /\ chrome = tool[t].handle
             /\ \/ filled' = {Typed(shown, 1)} /\ UNCHANGED shown
                \/ \E s \in Sites \cup {Nowhere} :
                      /\ shown' = s
                      /\ filled' = {Typed(shown, 1), Typed(s, 2)}
    /\ moved' = (IF shown' = shown THEN moved ELSE Looked) \ {t}
    /\ Return(t)
    /\ UNCHANGED <<owner, chrome, playwright, context, launches, deaths, login, raced, stranded>>

----------------------------------------------------------------------------
\* Chrome crashes or its window is closed; the user browses in it; a process ends, with
\* its Chrome (_shutdown), or dies, and the kernel frees the lock.
ChromeDies ==
    /\ chrome # NoLaunch /\ deaths < MaxDeaths
    /\ deaths' = deaths + 1
    /\ chrome' = NoLaunch /\ shown' = Nowhere
    /\ UNCHANGED <<owner, playwright, context, login, step, tool, launches, filled, moved, raced, stranded>>

UserNavigates ==
    /\ chrome # NoLaunch
    /\ \E s \in (Sites \cup {Nowhere}) \ {shown} : Show(s)
    /\ UNCHANGED <<owner, chrome, playwright, context, login, step, tool, launches, deaths, filled,
                   raced, stranded>>

ProcessEnds(p) ==
    /\ deaths < MaxDeaths
    /\ deaths' = deaths + 1
    /\ chrome' = IF Drives(p) THEN NoLaunch ELSE chrome
    /\ owner' = Unlocked(p)
    /\ playwright' = [playwright EXCEPT ![p] = NoLaunch]
    /\ context' = [context EXCEPT ![p] = NoLaunch]
    /\ login' = [login EXCEPT ![p] = Nowhere]
    /\ step' = [t \in Threads |-> IF Here(t) = p THEN "idle" ELSE step[t]]
    /\ moved' = {t \in moved : Here(t) # p}
    /\ tool' = [t \in Threads |-> IF Here(t) = p THEN NoTool ELSE tool[t]]
    /\ UNCHANGED <<shown, launches, filled, raced, stranded>>

ThreadStep(t) ==
    \/ LookForContext(t) \/ Acquire(t) \/ Launch(t) \/ GetPage(t) \/ Discard(t)
    \/ Raise(t) \/ Act(t) \/ CheckDomain(t) \/ FillIn(t)

Next ==
    \/ \E t \in Threads :
          \/ ThreadStep(t)
          \/ Call(t, "open", Nowhere)
          \/ \E s \in Sites : Call(t, "fill", s) \/ Confirm(t, s)
    \/ \E p \in Processes : ProcessEnds(p)
    \/ ChromeDies \/ UserNavigates

Spec == Init /\ [][Next]_vars

----------------------------------------------------------------------------
\* A process keeps a context only under its lock, and the lock only with a context to show
\* for it or a launch on its way, whatever its threads, its retries and the ends of Chrome
\* have done; and a Chrome that runs is the one of the process that has the lock: none is
\* left that no process can drive and none can replace.  Two things break this, and
\* nothing else: two threads of a process that launch or discard at once, of which one
\* gives back the lock that both of them have, and a stop() that raises, after which the
\* context and the lock are given up with Chrome still running.
ChromeIsOwned ==
    ~raced =>
        /\ \A p \in Processes : context[p] # NoLaunch => owner = p
        /\ owner # Nobody /\ context[owner] = NoLaunch =>
              \E t \in Threads : Here(t) = owner /\ step[t] = "launching"
        /\ chrome \notin {NoLaunch, stranded} => owner # Nobody /\ context[owner] = chrome

\* The first screen of a login is filled in only on the site it belongs to, wherever the
\* page has gone between the preview and the confirmation; only a page that moves under
\* confirm_login, and the screen after the first, are not looked at again.
FilledWhereItBelongs == \A f \in filled : f.screen = 1 /\ ~f.late => f.page = f.site
=============================================================================
