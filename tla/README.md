# sso.java.pl in TLA+

This directory specifies the programs of the sso.java.pl repository in TLA+,
model-checks the specifications with TLC and proves theorems about them with
TLAPS. The repository holds three programs:

| program | directory | what it is |
|---|---|---|
| sign-on gateway | `src/sso` | JOSSO 1.8 with its identity provider, identity store and password scheme replaced (Java) |
| Registration | `src/Registration` | a Grails application that administers user accounts and is a JOSSO partner, with the scripts of its pages |
| spring-security-core | `src/spring-security-core` | the Grails security plugin (1.1.x), a vendored fork with small changes |

## 1. Inventory

Each component with its state, its operations, how it interacts, what is hard
about it, and what makes it correct.

**Sign-on gateway: identity provider** (`DefaultSSOIdentityProvider`).
State: none of its own; the session store and the assertion store of JOSSO,
the SSO context of the current thread, the events fired. Operations: `login`,
`assertIdentity` (three forms), `resolveAuthenticationAssertion`,
`globalSignoff`, `logout`. Each is a sequence of calls into JOSSO's session,
assertion, identity and event managers, and the requests of other threads and
two monitor threads run between any two of them. Hard: sessions that end
between `initiateSession` and `getSession`, or between `getSession` and
`invalidate`; an error at any of the calls, each with its own catch block;
one-time assertions that are redeemed twice, late or never. Correct: one event
for each login; a replaced or signed-off session is dead; assertions belong to
reported sessions and are redeemed once; a session whose login failed after it
was opened is reached by no other request.

**Identity store and password scheme** (`DefaultIdentityStore`,
`DefaultAdministratorDAO`, `DefaultUsernamePasswordAuthScheme`,
`PasswordUtils`). State: the rows of `josso_user` and `josso_user_role`, which
Registration writes. One authentication reads the row four times, each time in
its own transaction. Correct: the answer is one that was right at some moment
of the authentication; the two programs agree on what a password's digest is.

**Registration: accounts** (`UserController`, `User`, `UserRole`). State: the
same rows. Operations: create, edit, delete, all read-validate-write without
versions; changes of grants. Correct: a login names one account; a stored
password was hashed once; a deleted account stays deleted.

**Registration: partner agent** (`JOSSOAuthentication*`, `JOSSOUtils`,
`LoginController`, `LogoutController`). State: the security context of a
request, the HTTP session, the JOSSO cookie. It redeems an assertion and then
asks the gateway for the user and for the roles in two more remote calls; the
session may end between any two of them.

**Access rule cache** (`RequestmapFilterInvocationDefinition`,
`AbstractFilterInvocationDefinition`). State: the hash map `_compiled`, the
flag `_initialized`, the monitor of `reset()`. Each web request searches the
map without the monitor; `reset()` clears and refills it in place. Hard: a
search that overlaps a reset; resets from several threads, some of them inside
a database transaction that has not committed; failures in the middle of a
refill. Correct: a search that nothing disturbs finds the most specific rule,
in whatever order the map is iterated; committed changes end up in the cache.

**Role administration** (`SpringSecurityService.updateRole`, `deleteRole`,
`clearCachedRequestmaps`). Changes rules in memory, writes them when the reset
queries the table, deletes grants and the role. `deleteRole` holds row locks
while it waits for the monitor, and others hold the monitor while they wait
for rows. Correct: everybody returns; a change is not undone by a stale reset.

**Annotation and intercept-map rules** (`AnnotationFilterInvocationDefinition`,
`InterceptUrlMapFilterInvocationDefinition`). The same map and search, filled
from the controllers' annotations at startup and on each reload, or from the
configuration on first use, in both cases with no lock.

**Persistent remember-me tokens** (`GormPersistentTokenRepository`). State: one
row for each series. A form login creates a series; an automatic login reads
the row, compares the cookie's token with the row's and replaces it in a second
transaction; a logout, or a token that differs, removes all series of the user.
Hard: parallel requests of one browser, which present one cookie; a removal
between the read and the write of an update; lost responses. Correct: an
accepted cookie was right at some moment; a browser that waits for its
responses is not taken for a thief; what has been removed stays removed.

**Access decisions** (`AuthenticatedVetoableDecisionManager`,
`WebExpressionVoter`, `GrailsWebInvocationPrivilegeEvaluator`). Pure functions
of the voters' answers.

**Plugin descriptor, filter chain, `SpringSecurityUtils`**. Bean wiring, the
ordered map of filters, configuration merged once at startup.

**Web filters and handlers** (`MutableLogoutFilter`,
`RequestHolderAuthenticationFilter`, `IpAddressFilter`, the Ajax handlers,
`SecurityEventListener`). One request, one thread.

**User details, principal, tag library, code generation**. Two reads in one
transaction and a value object; page rendering; code generation.

**Scripts of the registration application** (`src/Registration/web-app/js`).
`application.js` is on every page (`grails-app/views/layouts/main.gsp:7`); the
directory `prototype/` is what the Grails tags for Ajax and effects bring with
them. Script runs on one thread, so one event (a call of the page, a timer, an
event of the mouse or the keyboard, a change of a transport's state) is one
step; what interleaves are the events. A callback of the page may raise in the
middle of a step, which leaves the rest of it undone.

| component | state | hard | correct |
|---|---|---|---|
| Ajax requests, responders, periodic updater (`prototype.js` 1280-1704) | requests with their transports, `activeRequestCount`, the updater and its timer | callbacks that raise, a last state reported twice, a call deferred by a timer, `stop()` while a request is under way | a request completes once; the count is exact until something raises; a stopped updater is silent, another goes on |
| event registry (`prototype.js` 4280-4600) | responders by element and event, the listeners of the document | handlers that observe, stop and fire while an event is dispatched | registry and listeners agree; one call for each handler, element and name |
| form observers (`prototype.js` 4183-4260, `controls.js` 946-965) | the last value, timers | edits that no event tells of, callbacks that raise | the value reported last is the value there is |
| visual effects and their queue (`effects.js`) | the queue, its interval, the element's style | positions in the queue, a late interval, effects that overlap | effects that are over leave no trace; "end" waits |
| spinner (`application.js`) | requests, effects | a request that begins while the spinner fades | it shows while a request is under way |
| autocompleter (`controls.js` 35-470) | menu, observer timer, requests, token bounds | late and overtaking responses, timers of focus | the menu acts on what is shown; one token is replaced |
| in-place editor (`controls.js` 480-945) | form, loads and saves under way | responses to an editor that was left, opened again or destroyed | the element shows what is stored; typed text is kept |
| drag and drop, sortable lists (`dragdrop.js`) | the drag, two lists, observers, ghosts, scrolling | Escape, missed releases, callbacks that raise, effects that end late | the page is told the order; nothing is left over |
| slider (`slider.js`) | values, the active handle | calls of the page during a drag | handles stay in order; the page knows the values |
| live grid (`rico.js` 1780-2360) | buffer, view, request being processed, one remembered | scrolling and sorting while requests are under way, timeouts | each row is the one that belongs there |
| accordion (`rico.js` 160-300) | open tab, animations | clicks during animations | it comes to rest with one tab open |
| drag and drop of Rico (`rico.js` 960-1400) | selection, zones, the drag, its way back | zones that come and go, the mouse used while the animation runs | the selection is what looks selected; a drag leaves nothing |

The rest of `prototype.js` and `rico.js` (classes, enumerables, templates, the
selector engine, colours, corners) are functions of their arguments or single
changes of a page; `builder.js`, `scriptaculous.js` and `sound.js` write tags;
`unittest.js` is for tests.

## 2. Modules

| module | models | how state and actions correspond to the code |
|---|---|---|
| `SSOTickets` | what the gateway promises | abstract: sessions open, are reported, end; assertions are issued, redeemed, lapse |
| `SSOGateway` | `DefaultSSOIdentityProvider` on JOSSO's managers | one action for each library call of an operation; `pc[t]` is the next call of thread `t`; the stores are `sstate`, `owner`, `astate`, `bound`; `fired[t]` are the events of the current operation |
| `SSOGatewayProofs` | theorems | |
| `RequestmapCache` | the rule cache and the administrators that reset it | one action for each step that another thread can see: entering the monitor, each written row, the load, the clearing, each stored entry, the commit; a reader passes one map entry at a time |
| `RequestmapCacheProofs` | theorems | |
| `Accounts` | `UserController` and the gateway's password check over one table | one action for each SQL statement; `snapshot[w]` is the row as `User.get` read it; a stored password is the pair of the text and the way it was hashed |
| `AccountsProofs` | theorems | |
| `RememberMe` | `GormPersistentTokenRepository` under Spring's remember-me services and `MutableLogoutFilter` | one action for each call into the repository, two for `updateToken`, whose read and write are apart; browsers hold cookies, and responses may be lost |
| `RememberMeProofs` | theorems | |
| `AjaxRequests` | Ajax of `prototype.js` over the browser's transports | `req[r]` is a request object with its transport, reused once nothing refers to it; what a handler does to one request is an operator on its record (`Sent`, `Heard`, `Responded`), in the order in which the code's try blocks run |
| `EventRegistry` | `Event.observe`, `stopObserving`, `fire` | `registry` and `made` are the wrappers the code keeps, `listening` the browser's listeners, `dispatches` the events under way, the innermost last |
| `FormObservers` | the timed, event and delayed observers | one action for each edit, event and timer; a content is a set, a form's value pairs fields with contents |
| `EffectQueue` | the scoped queue and the combination effects | an effect is a record with its start, end and state; times are relative to now; `Loop` is one pass of the interval over the indexes, as the code counts them: `pass[i]` is the queue and the style after index `i` |
| `Spinner` | `application.js`: `AjaxRequests` composed with `EffectQueue` | the responders run inside the step of the request that tells them |
| `Autocompleter` | `Autocompleter.Base` with Ajax and local | one action for each key, mouse event, timer and response |
| `TokenCompletion` | the bounds of the token and the text a choice leaves | texts are short sequences; the functions of the code are operators on them |
| `InPlaceEditor` | the three kinds of in-place editor | `form`, `save` and `loads` are what is open and under way |
| `DragDrop` | `Draggables`, `Droppables`, `Sortable` with two lists and a bin | one action for each mouse event, key, timer and call of the page; the pointer may be over anything |
| `LiveGrid` | the live grid and the Ajax engine it uses | a row is the order it belongs to and its place in it |
| `Slider` | a slider with two handles | a pointer stands for the value it is translated to |
| `Accordion` | the accordion and its animations | animations are a sequence, the one due first first |
| `SelectionDrag` | Rico's drag and drop | selection and zones are sequences, in the order of the code's arrays |
| `PageCore` | the scripts of `prototype.js`, `effects.js` and `application.js` on one page | the constants, variables and instances of these components, which `Registration` extends |
| `Registration` | a page of the application: all script components | one `INSTANCE` of each, those of `PageCore` among them; a behaviour plays one scene |
| `RequestProofs` | theorems on `EventRegistry`, `AjaxRequests`, `EffectQueue`, `Spinner`, `FormObservers`, as `PageCore` has them | |
| `WidgetProofs` | theorems on `Accordion`, `InPlaceEditor`, `Slider`, `Autocompleter`, `TokenCompletion` | |
| `DragProofs` | theorems on `SelectionDrag`, `DragDrop`, `LiveGrid` | |
| `PageProofs` | theorems on `Registration` | |
| `MC...` | finite instances | symmetry sets, the constants a `.cfg` cannot write, and bounds; `MCEffectsOrder` is of the queue alone |

Definitions whose comment begins with "Mutant:" are not part of a
specification: each is a wrong variant of the action that follows it, the kind
of mistake a change to the code could make, and shows that the property it
goes with would notice.

Choices shared by the modules:

- Identifiers that the code draws at random or from a sequence come from
  finite sets. An operation that may need one starts only while enough are left
  (`RoomForLogin`, `RoomForAssertion`, `RoomForUser`), so that running out never
  looks like an error of the code.
- Variables that record history (`was`, `ruled`, `byRole`, `broken`, `known`,
  `current`, `before` on the servers, and what the declarations of the script
  modules mark as history) are read by properties, and `known` also by the
  environment, never by the modelled code.
- A behaviour of `Registration` plays one scene, one component, and the
  variables of the others are 0; each keeps its module, its variables and its
  properties. `Spinner` is the one that composes two. What the components share
  besides is the queue of effects: the autocompleter shows and hides its menu,
  the in-place editor highlights what it has saved, and a draggable dims when it
  is picked up, by effects that go through the same global queue (the one that
  ends a drag has a queue of its own, `_draggable`). `Autocompleter` and
  `DragDrop` have what these effects do to the component's own state, ending in
  any order; section 7 says what is left out.
- Calls into libraries are atomic; what they may return includes every error
  that the code handles.

## 3. Runs

| run | instance | shows |
|---|---|---|
| `gateway` | 2 threads, 2 users, 3 sessions, 1 assertion, no store faults | `TypeOK`, `ReplacedSessionIsDead`, `NoSilentSession`: what only stores that do not fail make true |
| `gateway_faults` | 2 threads, 1 user, 2 sessions, 1 assertion, a store error possible at every call, fairness | `LoginReportsOnce`, `SignoffEndsSession`, `AuditTrail`, the refinement of `SSOTickets` (`ImplementsTickets`), `FailedLoginIsShut`, `RequestsReturn`: what holds whatever fails |
| `rules` | 2 readers, 2 administrators, 2 operations, 2 patterns, 2 roles, failures; 1.9 million states | `TypeOK`, `SavesAreSeen`, `CleanScan` |
| `rules_live` | 1 reader, 2 administrators doing role operations, loads and compiles that do not fail, fairness | `AdminReturns`, `FindReturns` |
| `rules_window` | 1 save | **violated** `RuledUrlFindsRule` (section 6) |
| `rules_stale` | saves and role deletions | **violated** `CacheIsCurrent` (section 6) |
| `accounts` | 2 application requests, 1 authentication, 2 rows, 2 logins, a legal and a blank password | `TypeOK`, `OneAccountPerLogin`, `HashedOnce`, `LoginsAreAtomic`, `DeletedStaysDeleted` |
| `accounts_padding` | the legal password's digest begins with 0 | **violated** `DigestsAgree` (section 6) |
| `accounts_blank` | as `accounts` | **violated** `PasswordsAreLegal` (section 6) |
| `remember_me` | 2 threads, 2 browsers of 1 user, one of them patient, 2 series, 2 token values, failures of every call | `TypeOK`, `AutoLoginsAreAtomic`, `PatientIsNoThief`, `RevocationIsFinal` |
| `registration_page` | 13 scenes, one for each script component and two for the autocompleter (bounds below); 836 thousand states | 17 properties, those of each component in its scene |
| `effects_order` | one element, three effects that fade it, at the end of the queue or beside it | **violated** `EndWaits` (section 6) |

### What the properties of `registration_page` say

- `RequestsAreCounted` (`CompleteOnce` and `CountIsExact` of `AjaxRequests`),
  `StoppedIsSilent`, `KeepsPolling`: with callbacks that raise, exceptions that
  escape, a last state reported twice, answers that never come, updaters that
  poll synchronously or not, and callbacks that stop them in `onCreate` or when
  the outcome is known.
- `HandlersAreCalledRight`: registry and listeners agree whatever handlers do to
  them, and no event calls a handler twice for an element and a name.
- `EffectsAreUndone`: clipping, position, opacity, size and place are the
  element's own again when the queue is empty, unless two unrelated effects
  were pending at once; and on pages that queue effects of one stage at the end,
  as `application.js` does, each waits for those ahead of it, if the interval is
  late by no more than an effect lasts. (One that is later finishes two effects
  in one pass, which skips the effect after the first; `effects_order` shows
  what comes of that. And what an effect of two stages, like `Grow`, starts in
  its `afterFinish` is queued to start at once.)
- `SpinnerFollows`: of the two modules composed. When the effects are over, the
  spinner is shown exactly while a request is under way, until something raises
  and with the same limit on the interval: one that is later may finish a fade
  that was to come before an appearance after it, and hide the spinner.
- `MenuIsRight`: while the menu is active, the entry that Return would take is in
  the list, and the list is displayed, or an effect that displays it is on its
  way, unless a fade takes it off (below); the choices are for the text in the
  field once nothing is due; the indicator stops.
- `OneTokenIsReplaced`, `ShowsWhatIsStored`, `TypedTextIsKept`,
  `DragsAreOrderly`, `GridIsRight`, `HandlesAreRight`, `OneTabOpen`,
  `SelectionIsRight`, `FormIsReported`, `PageTypeOK`: as their comments say, each
  made of the properties that its component's module defines.

Some of these except a behaviour that the code has and that the properties do
not call an error; each exception is a history variable with a name, set by the
step that causes it:

- an updater that is stopped before the constructor of its request has returned
  (`stop()` in `onCreate`, or in any callback of a synchronous response) silences
  the request before that one and goes on polling, until it is stopped again
  (`early`): `this.updater` is assigned when the constructor returns;
- an answer that comes after a sort, a new number of rows or a timeout is taken
  for that of the request being processed, and puts the wrong rows into a live
  grid (`mixed`).
  Its buffer may then reach beyond the last row, and the next request ask for
  less than no rows: the types of `LiveGrid` bound the requests exactly before
  that and loosely after. An answer may also push the page on view out of the
  buffer, and `setTotalRows` empties the grid without asking for rows
  (`unfilled`);
- a tab of an accordion that is opened while it is still closing is hidden by
  the end of the older animation (`reopened`);
- a drop over several of Rico's zones leaves the hover of the others on
  (`overlapped`), and the mouse used while a dragged element moves back ends
  another drag than its own (`hurried`);
- Escape leaves the scrolling of a drag on, or cancels one that has not moved;
  a release outside the window is not seen; a callback that raises leaves the
  drag half finished (`fault`);
- `show()` does nothing while the menu of an autocompleter is displayed, and that
  it is for the 150 ms of a fade: a menu asked up in this time, by the answer
  that comes just after Escape, say, is active and fades away (`hidden`). The
  timer of a blur begins such a fade although the user is back (`hidden` too).
  The mouse over a menu that fades makes it active again, for whatever text it
  was (`straight`). Escape before the first pass of the `Effect.Appear` finds
  the menu not displayed and leaves it to appear, inactive: no property
  forbids that;
- a choice in a text that was edited since the last pause uses
  the old bounds (`fresh`);
- a press at a place where the offset within the handle of a slider was never
  measured makes its value NaN (`blind`);
- an in-place editor left by Escape during a save shows the old text
  (`abandoned`), and one opened again while a load is due takes that load for
  its own (`reopened`).

### Bounds

On the servers every hazard of the inventory needs two actors in
conflict, sometimes with a monitor as the third: two threads race for a
session, two administrators for the monitor and a row, two requests for a
login name, and TLC runs all their interleavings. Three sessions let one
browser replace a session twice while another logs in. One assertion is enough
because nothing relates two assertions. Two patterns, one covering the other,
give the search a choice to get wrong, and two operations are what a stale
reset takes. In `rules` two searches race with each other, as first ones that
initialise the cache, until the second operation has begun; from then on one at
a time searches (`Bounded`). Two token values and two browsers are enough for a
stolen or repeated token to differ from the row's, and two series for one that
outlives the other; repeated draws of one value are allowed.

In the scripts:

- requests: two objects, reused when done; `MaxCount` 2 bounds the count, which
  lost requests raise for good; one request at a time may raise (`OneFault`);
- events: an element in another, one handler, a custom event, `mouseover` and
  `mouseenter`, which share an event of the browser; two responders; two events
  under way (`MaxDepth`), so a handler that fires one from within another;
- effects: last 2 units of time, the interval comes after 1 or 2; pages with
  each kind of effect alone, with three kinds and any position, and that toggle;
  pages that queue at the end only, of three kinds with three effects or of two
  kinds with four; the spinner's four. Three in a row are what it takes for a
  pass to skip one and start the next, and four for another to be behind these;
- autocompleter: two texts, one too short, two entries, two requests under
  way, so that they may overtake each other, and two effects of the menu under
  way (`MaxMenuEffects`), so that a fade may end behind an appearance, before it
  or behind another fade; token texts of up to three
  characters, with a delimiter that is white space and one that is not;
- editor: two texts, two loads under way;
- sortable: two items, two lists and a bin, and two of the sixteen combinations
  of options, both with ghosts (`DragOptions`);
- grid: a page of one row, a buffer of two, one or five rows in all, two
  requests under way: the buffer is extended, cut and replaced at both ends.
  Once rows may be mixed up, what is under way is answered and nothing more is
  asked for until the grid is reset (`AnswersOnly`);
- slider: two handles on 0..3, every value allowed or three of them;
- accordion: three tabs, two steps to an animation, two animations under way;
- selection: two items, two zones, the second of which accepts them
  (`SecondAccepts`). Where both accept they stay registered and the mouse waits
  for the end of a drag (`Simply`);
- form: a text field, a checkbox and a list; one disabled at a time
  (`FewDisabled`); a timed observer is of the text field or of the form
  (`FewObservers`).

`SecondAccepts`, `FewDisabled` and `FewObservers` are state constraints and
`Simply` and `AnswersOnly` are action constraints of the configuration, so that
`Registration` and what is proved of it have none of them; `Rested` is the one bound that is
in the module, next to the bounds on counters and queues that are constants of
the components. The proofs hold for every value of those constants.

Deadlock is checked in every run and none disables it: an idle
thread can always be sent another request, until all identifiers are used,
when logout (or the answer to a request for an account that is gone) remains;
and the user of a page can always do something. Where the bound on the count of
requests is what stops a page, `Rested` says so.

## 4. Fairness

`SSOGateway.FairSpec`: a server thread that has begun a request continues (its
calls return or raise). Nothing is assumed of JOSSO's monitors: that a session
or an assertion ends which nobody uses is their doing and not this code's, so
no property claims it. Nobody is obliged to send a request or to redeem an
assertion.

`RequestmapCache.FairSpec`: threads run on, the monitor and the row locks being
granted to somebody that waits; weak fairness is enough because the properties
hold whoever gets them. Nobody is obliged to search or to change a rule. In
`rules_live` no load and no compile fails. With a rule that never compiles every
search fails in its `initialize()`, so first searches may come again and again,
each with a reset of its own, and nothing in the code keeps the monitor from
going to them for ever while an administrator waits for it (weak fairness does
not, and TLC shows it). That a failure leaves the monitor is part of `TypeOK`,
which `rules` checks with such failures.

`Registration.PageSpec`: the browser moves every transport on, so weak
fairness of `StateChange`, which `KeepsPolling` needs. Nobody is obliged to
make a request, and no timer is fair: the property says that the timer is set,
not that it comes.

`Accounts` and `RememberMe` state no liveness: their requests are straight-line
code. Nor do the other script modules, whose next event is the user's or a
timer's.

## 5. Proofs

All theorems hold for every value of the constants that satisfies the
assumption named in the module (`GatewayAssumption`, `CacheAssumption`,
`AccountsAssumption`, `RememberMeAssumption`, `RegistryAssumption`, and
`PageAssumption`, which collects those of the other script modules): any number
of threads, users, sessions, rows, patterns, elements, texts, requests, items,
zones, tabs, rows of a grid. What the assumptions of the script modules say is
that values meant to be told apart are different (`None` is no item, `NaN` no
number), that sets of elements are finite where the code keeps an array of them,
that bounds are natural numbers, of a live grid that a page fits into its
buffer and that there are rows for at least a page, and of effects that scripts
create those whose function the page calls (the first of two stages), at one of
the four positions. Each proof has an inductive
invariant, the lemma that the initial states satisfy it, one lemma for each
action that it is preserved, and the theorems that follow. The invariants are
called `IInv` on the servers, and after their component in the proofs about
scripts (`MenuInv`, `GridInv`, ...), which share modules and, by instances,
variables.

`SSOGatewayProofs`. `IInv` adds to `TypeOK`: what is in circulation
(`Circulation`: every known identifier and every assertion belongs to a
reported session, and a reported session has been opened); what a thread knows
at each call (`ThreadInv`); and that no two threads hold one session that
neither has reported (`OneOpener`). The last one is what makes a login's
report unique: without it the action property "reported once" of `SSOTickets`
could not be derived at `LoadSession`. From `IInv`: `TypeCorrect`,
`LoginReporting`, `Replacement`, `Silence`, `SignoffIsFinal`,
`AuditTrailOrder`, and `Implementation`, which maps every action to an action
of `SSOTickets` or to a stutter. `FailedLoginStaysShut` needs more: a session
that a login has opened and not given away is the thread's alone (`Private`,
`Apart`), so what other threads hold, which they got from a caller, is another.

`AccountsProofs`. `IInv` is `TypeOK`, `OneAccountPerLogin`, `HashedOnce`, what a
worker holds at each statement, and what an authentication has witnessed: after
the second load, that there was a moment at which the account existed with the
password loaded, or that the answer to give is "refused" and "invalid" has been
seen. Theorems: `TypeCorrect`, `UniqueLogins`, `Hashing`, `AtomicLogins`,
`DeletionIsFinal`.

`RememberMeProofs`. `IInv` adds `Holding`: a series is mentioned (held in a
cookie, presented, about to be answered) by one browser only, and exists. So
only requests of that browser write its token, and for a patient browser these
come one at a time: `PatientThread` and `PatientBrowser` say that the cookie it
holds, or the one in the response to come, is the row's unless the row is gone.
Without `Holding` the write of another browser's request could not be excluded.
`ThreadInv` carries what an automatic login has witnessed and what a logout has
removed. Theorems: `TypeCorrect`, `AtomicAutoLogins`, `PatienceIsSafe`,
`FinalRevocation`.

`RequestmapCacheProofs`. `SavesAreSeen` is not inductive: a reset that loaded the
table before a commit would make the cache old. The invariant adds that whoever
commits a rule has still to load the table (`Pending`: it goes from its commit
into the monitor), so that what the reset in the monitor has loaded is current
unless another is to come (`LoadedIsCurrent`), and so is the cache when nobody
rebuilds it (`StoredIsCurrent`). One thread at a time is in the monitor, which
is part of `TypeOK`. Rows that role operations wrote are excepted, as
`rules_stale` shows they must be. `CleanScan` is inductive by itself: what a
search holds is the most specific of the patterns it has passed, in whatever
order, because one candidate is replaced only by a pattern it covers. Theorems:
`TypeCorrect`, `SavesSeen`, `CleanSearch`.

`RequestProofs` extends `PageCore` and not `Registration`: the provers work on
the smaller context, and what is proved is said in the words that `Registration`
has too, so `PageProofs` cites it as it is.

- `EventRegistry` (`RegistryInv`). The invariant adds to `HandlersAreCalledRight`
  what an event under way still has to call: responders of the element it is
  at, which stand for different calls, none made yet; what it has called was for
  this element or for one it has left. Theorems: `RegistryInvariance`,
  `RegistryTypeCorrect`, `HandlersCalledRight`, for any tree of elements, names
  and depth of events.
- `AjaxRequests` (`RequestsInv`). A request that is not complete has called nothing
  and told nobody, one that is complete has told the responders or was broken
  (`RequestInv`); the count is that of the requests that have not told
  (`CountInv`), up to equality until something raises; and an answer that would
  reschedule the updater is that of its last request, with the updater going on
  (running, or stopped too early) and its timer not set (`PollInv`), without
  which a stopped updater could be started again by an older request.
  Theorems: `RequestsTypeCorrect`,
  `CompletesOnce`, `CountsRequests`, `StoppedStaysSilent`.
- `EffectQueue`, the line (`LineInv`). On a page that queues effects of one stage at
  the end only, and with an interval that is late by no more than an effect
  lasts, the queue is a line (`Line`): each effect starts where the one before
  it ends or later, so only the first may have begun, and a pass of the interval
  finishes or removes at most that one. The lemmas follow the pass index by
  index, with the queue and the style after each. Theorem: `EffectsWaitInLine`,
  the types of the queue (`QueueTypes`, for any pages and lag) included.
- `EffectQueue`, the trace (`TraceInv`). As long as no two unrelated effects were
  pending at once, there is one at most (related ones, as `toggle` makes them,
  have a queue with a limit of one), and what it may have left in the style so
  far is known from its kind and from whether it has begun (`IdleLeft`, of a
  second stage what the first has left to it; `SetUpLeft`, `RunLeft`). `Left` and `Through` say for a list of calls which
  properties of the style it may have changed and not yet restored; that each
  kind's lists, run from setup to finish, leave none is the heart of the proof.
  Theorem: `EffectsLeaveNoTrace`, for every kind, also where the interval is
  late by any time.
- `Spinner` (`SpinnerInv`). The queue is in line, as above, and the effect that was
  queued last fits the count of active requests: an appearance if it is above
  zero, a fade if not; and if the queue is empty the style fits it
  (`ComesToRest`). With `CountInv`, which says what the count is, follows
  `SpinnerShowsRequests`.
- `FormObservers` (`ObserverInv`). What was told last is, for an observer by time,
  the value at its last tick; for one by events, the form as the browser last
  told of it (`Committed`: a text field counts with the text it had when it was
  entered, so typing is not a change until the field is left); for a delayed
  one, the value there is unless its timer is set. Theorem: `FormStaysReported`.

`WidgetProofs`.

- `Accordion` (`AccordionInv`). The invariant takes the animations as a set: a
  content on display is that of the open tab or will be hidden by an animation;
  the open tab is at its full height or an animation will bring it there, and
  none hides it unless it was opened while one was closing it; titles have the
  colours of their tabs at all times. Theorems: `AccordionTypeCorrect`,
  `ComesToRestOpen`.
- `InPlaceEditor` (`EditorInv`). What the server has is on view or kept as the old
  text and there is one save at most, unless one was abandoned (`SaveInv`); a
  form opened when no load was due waits for its own, so it is enabled only when
  none is under way (`LoadInv`). Theorems: `EditorTypeCorrect`, `StoredIsShown`,
  `TypedStays`.
- `Slider` (`SliderInv`). `HandlesInOrder` and `ChangeIsReported` are inductive with
  the types, once two lemmas say what `getNearestValue` returns:
  `SomeAreNearest`, that there is a greatest among the nearest allowed values,
  and that the value nearest to one between two allowed values is between them,
  which is why rounding to an allowed value cannot carry a handle past the
  other. Theorems: `SliderTypeCorrect`, `HandlesStayInOrder`.
- `Autocompleter` (`MenuInv`). The invariant says of the queue of requests what
  makes the choices current: as long as answers come in order and none was
  dropped (`straight`), the last request under way is for the text in the field,
  or, when there is none, the choices on view are (`ChoicesFollow`). A menu that is
  active has an index within its entries, and is displayed, or about to be with no
  fade under way that would hide it, unless it is `hidden` (`MenuFlags`). Theorems: `AutocompleterTypeCorrect`,
  `MenuStaysRight`, for any number of requests that overtake each other.
- `TokenCompletion` (`TokenInv`). Unless the text was edited since the last pause,
  the bounds that were kept are those of the text there is and of one that it was
  compared with (`BoundsFollow`). Lemmas about the functions of the code say the rest: the first
  difference of two texts is where they first differ, the last delimiter before
  it and the first after it enclose one token (`BoundsAreAround`), `strip` and
  the blanks before a token are parts of it, and a text is what is before the
  bounds, between and after them. Theorems: `TokensTypeCorrect`,
  `ChoicesReplaceTokens`.

`DragProofs`.

- `SelectionDrag` (`SelectionInv`). The array of the selection, the marks and the one
  selected last say the same (`Agrees`); the zones look active exactly while
  something is dragged (`ZonesFollow`); and while the mouse waits for the
  animation there is one drag, of the first of the selection, with one way back
  at most, and what is hovered is under the pointer (`OneDragAtATime`). The proof
  needs that the array of zones names no zone twice (`ZonesInOrder`). Theorems:
  `SelectionTypeCorrect`, `SelectionStaysRight`.
- `DragDrop` (`SortableInv`). No list holds an item twice (`SortableTypes`), and
  `DragsInv`: clones, scrolling and highlights belong to a drag, of which there
  is one while no release was missed; a drag begins with the order that the page
  was told, where no ghost doubles an item (`OrderKept`), and what it was told is the order there is when no drag is under
  way. Theorems: `SortableTypeCorrect`, `SortableStaysRight`.
- `LiveGrid` (`GridInv`). `RowsAreRight` is not inductive: it says nothing of the
  answer to come. The invariant takes the buffer as a run, rows of one order
  from `startPos` on (`BufferInOrder`), and adds that the one request under way
  is the one that `FetchOffset` and `FetchSize` give for the buffer there is and
  for some page (`Asked`). The arithmetic is in lemmas about the buffer alone: a
  run that is extended by the rows asked for, at either end, or replaced, is a
  run again, cut off to the size of the buffer at the right end, and it contains
  the page asked for, for any page, buffer, tolerance and number of rows. That
  the page scrolled to gets filled needs the reason why it will be: it is in
  the buffer, or remembered behind a request, or asked for, or filled already
  (`Settles`). Theorem: `GridStaysRight`. What the types say of the buffer, the
  view and the requests is `GridTypes`, which is kept also when an answer is taken
  for another (`mixed`): the buffer then is no run, but its length is still cut
  to twice `LargeBufferSize`. That a request of a grid in order stays within the
  rows there are is a lemma about `FetchOffset` and `FetchSize` (`FetchWithin`).
  Theorem: `GridTypeCorrect`.

`PageProofs`. In the scene of a component a step of `Registration` is a step of the
component or leaves it alone (one lemma for each scene), so `PageInv`, which
holds each component's invariant in its scene, is an invariant of the page
(`PageInvariance`), and every property the run `registration_page` checks, but
for the liveness of the updater, is a theorem about `PageSpec` itself:
`PageTypeCorrect`, `PageCallsHandlers`, `PageCountsRequests`, `PageUpdaterStopped`,
`PageEffectsUndone`, `PageShowsSpinner`, `PageMenuRight`, `PageReplacesTokens`,
`PageShowsStored`, `PageKeepsTyped`, `PageDragsOrderly`, `PageGridRight`,
`PageHandlesRight`, `PageOneTabOpen`, `PageSelectionRight`, `PageFormReported`.

Induction over numbers, where a proof needs it, is by least elements (`LeastNat`
in `RequestProofs`, `LeastOf` in `WidgetProofs`, from the well-foundedness of the
naturals), because the library's induction theorems take an operator, which the
provers cannot instantiate.

Only model-checked: liveness (`RequestsReturn`, `AdminReturns`, `FindReturns`,
`KeepsPolling`), which is out of the prover's reach. Every
invariant and every action property that a passing run checks is a theorem.

Three of them were found too strong while they were being proved, because the
instances that TLC checks are too small or too prompt to show it, and now
say when they hold: `SpinnerFollows` needs an interval that is late by no more
than an effect lasts, `EndWaitsInLine` effects of one stage, and the types of the
grid are loose once an answer was taken for another.

## 6. Where the code and its documentation differ

- **A URL with a rule is reported to have none** (`rules_window`). `reset()`
  empties the map that requests search and refills it entry by entry.
- **The cache stays stale after deleteRole** (`rules_stale`). The cache is
  reset inside the transaction, and another thread's reset before the commit
  loads the old table.
- **Digests that begin with 0** (`accounts_padding`). Registration prints the
  digest as a number, the gateway digit by digit.
- **Updates are validated after hashing** (`accounts_blank`). The constraint on
  the password sees forty digits, whatever was typed.
- **An effect queued at the end does not wait** (`effects_order`). The pass of the
  interval counts the indexes of an array that shrinks when an effect finishes,
  so it skips the one after; of two effects that are over the second stays, and
  the one that was queued behind both starts.

## 7. Not modelled, and why

- Wording and layout of pages, logging, URL building, cookies' paths: no
  property is about them.
- Listeners behind JOSSO's events: the event manager swallows their errors;
  "fired" means that the provider called it once.
- The audit and web tiers of JOSSO, Spring Security's own filters: external
  code, of which only what `src/` relies on appears.
- `GormPersistentTokenRepository.lookupDomainClass`: the class is there when the
  plugin is configured as its guide says. When it is not, the method's
  `log.error` names a field that the class does not have (its logger is `_log`),
  so the call raises; the model's failure of the call covers that.
- Role names as text: `deleteRole` and `updateRole` edit lists of names with
  string operations; in `RequestmapCache` a rule is a set of names, so a name
  that is part of another is out of its sight. The row of the role itself is not
  there either: while an update is under way both names are in use (`Names`),
  since the new one is written with the first rule or at the end; an update that
  keeps the name changes no rule and resets the cache.
- A form without a password field: the pages' forms always send one. A request
  without it would make `update` hash the stored digest again
  (`UserController.groovy:76`).
- The partner agent of Registration: one thread that redeems an assertion and
  asks for the user and the roles. It keeps nothing of an attempt that fails;
  the other side of its three calls, with everything that may end the session
  between them, is in `SSOGateway`.
- The annotation and intercept-map rules: their search is that of
  `RequestmapCache`; what unlocked writers leave in a `HashMap` is not defined
  by the class.
- Access decisions, the filter chain, the configuration: functions of their
  input, computed once or on one thread.
- `authenticate`'s neighbours `loadUser` and `findRolesByUserKey`: one read each.
- Scripts: that no page of the application itself loads the directory
  `prototype/` is a matter of the tags it uses; the modules take a page that
  does. The accordion and the live grid need an `extend` method of every object
  (`rico.js:24`, `rico.js:167`, `rico.js:1780`), which the `prototype.js` beside
  it no longer defines; the page is taken to supply it. Geometry (what is under
  the pointer) is a choice of the environment; transitions of effects count by
  their ends. Of the form observers, callbacks interrupted by an alert or by a
  synchronous request, and elements added to the form later; of the
  autocompleter, the local search (`controls.js` 418-461), a function; of
  `dragdrop.js`, trees, snapping and revert effects; of the event registry, the
  event model of old Internet Explorers and `dom:loaded`; of the in-place editor,
  `htmlResponse: false`, where it is the page's `onComplete` that writes the saved
  text, and empty texts, which its code takes for none (`controls.js` 584, 613);
  of a sortable with ghosts, the ghost that a lost drag leaves in its list. (That
  the list holds the ghost already when the drag begins is modelled: it is why
  such a list is told of every drag, changed or not.)
- Components on one page that meet in `Effect.Queue`: the spinner's effects and
  the requests are composed (`Spinner`). The effects of the autocompleter's menu,
  of the in-place editor and of a draggable that is picked up (`Effect.Fade`,
  `Appear`, `Highlight`, `Opacity`) are in the models of these components only,
  if at all, and without their places in the queue. They start at once, so they do not wait for others;
  an effect of another component that is queued at the end, such as the
  spinner's, waits for them too, and a pass in which one of them finishes may
  skip it, as any (section 6).

## 8. Plan

Done, in the order in which they were written: `SSOTickets`, `SSOGateway` and
the proof of the refinement; `RequestmapCache` and its proofs; `Accounts`;
`RememberMe`; the script modules and `Registration`; the proofs about the
script components and about the page.

Left, in order:

1. `RoleRules`: the edits of a rule's text over sequences of tokens, against the
   edit of a set.
2. `PartnerAgent`, composed with `SSOTickets`.
3. `RuleSources`: the annotation and intercept-map sources.
4. `AccessDecision` and `FilterChain` against reference definitions.
