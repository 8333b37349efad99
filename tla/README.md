# A TLA+ model of big_movies_app

The repository is a Flutter application that browses movies and TV shows of TMDB:
a main page with a category dropdown, a search field and an endlessly scrolling
list, a details page for each movie or TV show, and a web view that plays it. It
also holds the platform runners `flutter create` generates, of which the Windows one
has logic of its own, and a vendored copy of glibc 2.33, by far the largest part
of the repository, that the app's own code does not refer to.

This directory models the app from `main()` to the player, the Windows runner, and
of glibc the synchronization primitives of `nptl`, where the reasoning is hardest.
TLC checks the models on small instances; TLAPS proves the main properties for
every value of the constants.

## The system

| Component | State | Operations | Interacts with |
|---|---|---|---|
| Controller (`lib/controllers/main_page_data_controller.dart`) with `MainPageData` and `SearchCategory` | `movies`, `tvShows`, `page`, `searchCategory`, `searchText`; implicitly the fetches that are suspended at an `await` | `fetchMoviesOrTVShows`, `updateSearchText`, `updateSearchCategory` | calls `MovieService`; its state is watched by the main page and by the poster provider |
| Main page (`lib/pages/main_page.dart`) | the text field, the poster provider | edit of the text, choice of a category, end of a scroll, tap on a tile | the only caller of the controller; pushes the details pages |
| Details pages and player (`movie_details_page.dart`, `tv_show_details_page.dart`, `embed_page.dart`) | the Navigator's stack; season and episode of a TV show | open, select a season or an episode, play, go back | cover the main page while answers keep arriving |
| Services (`movie_service.dart`, `http_service.dart`) | none beyond the Dio client | eleven methods, one GET each | TMDB through Dio |
| Models and tiles (`lib/model`, `lib/widgets`) | none | `fromJson`, `build` | built by the services, drawn by the main page |
| Startup (`main.dart`, `splash_page.dart`) | the services registered in GetIt | load the configuration, register, launch | creates what the controller looks up |
| Windows runner (`windows/runner`) | window handle, Flutter controller, child view, class registration, count of windows | convert the command line, create, handle messages, destroy | Windows calls its handlers back from inside `CreateWindow` and `DestroyWindow` |
| Semaphore (`nptl/sem_*.c`) | value and number of waiters in one word | wait, trywait, post, destroy | threads; futex; cancellation |
| `pthread_once` | one word: state and fork generation | run `init_routine` once | threads; futex; cancellation; `fork` |
| Barrier (`nptl/pthread_barrier_*.c`) | `in`, `out`, `current_round` | wait, destroy | threads; two futexes |
| Condition variable (`nptl/pthread_cond_*.c`) | the sequence of waiters, two groups with their signals, sizes and references, the internal lock | wait, signal, broadcast, destroy | threads; futexes; the program's mutex; cancellation |
| Linux, macOS, iOS, Android and web runners | one window or view | set-up | host the Flutter view |

What is hard here.

*The app.* Dart runs it on one thread, so a callback is atomic up to its first
`await`; but `fetchMoviesOrTVShows` is suspended while its request is under way,
nothing marks it as running, nothing cancels it, and when it resumes it uses the
state *of then*. Meanwhile the user may select something else, scroll again or open
another page, several fetches may be under way, and their answers come in any order
or not at all. Errors are swallowed. The page keeps copies of what the controller
knows (the text field, the poster), changed by different callbacks. Answers come
from a service that may leave out, null or retype any field.

*The Windows runner.* One thread, but re-entrant: `Destroy` calls `DestroyWindow`,
which sends `WM_ACTIVATE` and `WM_DESTROY` to the window, whose handlers call
`Destroy` again, while the object may already be half destructed.

*nptl.* Any interleaving of single atomic operations, wake-ups that go to the wrong
thread or come by themselves, time-outs and cancellations racing signals, memory
destroyed and reused by the thread that was just let go, counters that reach a limit.

`PROJECT.json` lists each such hazard at its line, with the properties that would
catch it going wrong.

## Modules

| Module | Models | How |
|---|---|---|
| `SearchCategory` | `search_category.dart`, the dispatch of a fetch | the nine category names; `MethodFor` is the `if` chain of `fetchMoviesOrTVShows` |
| `MainPageDataController` | the notifier | below |
| `PagedFeed` | nothing in the code: the abstract specification of a paginated feed | `Select` starts an empty feed, `Grow` adds the next page |
| `DetailsPages` | the pages above the main page | `stack` is the Navigator's stack without its first route |
| `MainPage` | the main page over the controller and under the details pages | extends `MainPageDataController`, instantiates `DetailsPages` |
| `Models` | `fromJson` of the classes, the tiles | a JSON value is reduced to whether it is there, has the declared type, or makes the implicit cast throw; an object is a record of its fields |
| `MovieService` | one call of a service method, from the GET to the tiles | the reply is any of a bounded set of shapes |
| `Startup` | `main.dart`, `splash_page.dart`, what the controller needs to exist | below |
| `App` | the app from `main()` to the first tiles | extends `MovieService`, instantiates `Startup` |
| `Win32Window` | `win32_window.cpp`, `flutter_window.cpp`, the message loop of `main.cpp` | `frames` is the stack of active calls |
| `CommandLine` | `utils.cpp` | a string is the kinds of its UTF-16 units; the 32-bit length is scaled down |
| `WinMain` | `wWinMain` | extends `Win32Window`, instantiates `CommandLine` |
| `TokenSemaphore` | nothing in the code: what a semaphore promises | a counter of tokens and the calls that have not taken effect |
| `Semaphore` | `sem_init`, `sem_wait`, `sem_trywait`, `sem_post` with 64-bit atomics | one action for each atomic operation |
| `Once` | `pthread_once.c`, the generation kept by `fork.c` | as above; a fork is followed into the child |
| `RoundBarrier` | nothing in the code: what a barrier promises | `count` threads wait, then exactly these leave |
| `Barrier` | `pthread_barrier_wait.c`, `_destroy.c`, `_init.c` | as above |
| `CondVar` | `pthread_cond_wait.c`, `_signal.c`, `_broadcast.c`, `_common.c`, `_destroy.c` | as above; what the internal lock protects goes with the operation before it |
| `MC...` | nothing: symmetry sets for TLC | |
| `...Proofs` | nothing: theorems | |

An operator whose comment begins with "Faulty variant of" is no part of a model: it is
a plausible mistake, with which the property named beside it in `PROJECT.json` fails.

### The controller

`state` is the `MainPageData`. `calls[f]` is the request that fetch `f` awaits;
`NoRequest` if `f` is not running. A fetch is split at its `await`:
`fetchMoviesOrTVShows(f)` (and the last line of both update methods) reads the
state, picks the method and sends the request; `FetchReturns(f, n)` appends `n`
results to the state as it is then and moves the page on; `FetchThrows(f)` is the
empty catch block. `updateSearchText` and `updateSearchCategory` are one step each:
they reset the lists and begin a fetch before anything else can run.

An item is known by the request it answers and its place in the answer, which is
what tells a duplicate or a foreign result from a proper one. `getLatestMovie`
sends no page, so its requests have page 0.

Three history variables, which no action reads to decide anything: `stale` (the
running fetches begun before the last reset), `log` (the answers since then),
`raced` (did anything begin while a fetch was running).

### The main page

Each callback of a widget is an action that includes the call it makes on the
controller and, where the state changes, the recomputation of the poster provider.
The user can act on the main page only while it is on top, and scroll only when a
list is shown; answers come at any time. `threw` is a history variable for the
liveness property.

### Startup and the service

The chain `initState` begins is followed step by step: the delay, `_setup` up to its
`await` of `loadString`, the rest of `_setup`, `_launchApp`, and the first frame of
the main page, where the provider constructs the controller and the controller looks
`MovieService` up in GetIt. The configuration is external and may be anything:
missing, no JSON, not an object, or an object in which each of the three keys is a
string, null or of another type. Everything that can throw does so before the first
registration, so a bad configuration registers nothing. When the main page is there,
`App` lets one call of any service method follow.

TMDB and Dio are external. A reply is a status of the 2xx range (Dio throws on the
others) and a body: the documented object, or something else. In a list one element
may be odd, with up to two odd values, which covers every pair of fields that a
factory or a tile reads together, or with all of them null or ill-typed. An object
without any key is no error to `getLatestMovie`: it becomes a movie of nulls, which breaks
its tile.

### The Windows runner

Windows is external: what `CreateWindow`, `DestroyWindow`, `UnregisterClass`,
`PostQuitMessage` and `WideCharToMultiByte` do is modelled from how the runner uses
them. `frames` holds the active calls, the innermost last, each named for what it does
next; a message that is sent pushes its handler, a message that is posted waits in
`queue`. `RegisterClass`, `CreateWindow` and the engine may fail, `CreateWindow` also behind
`WM_NCCREATE`: the handle then names a window that was never made, until the destructor
has tried to destroy it. The order of construction and
destruction (`object`, whose virtual functions are in force) matters because handlers
run in the middle of it.

A message that another program sends, such as `WM_FONTCHANGE`, waits like a posted one
until the thread retrieves messages. The code does so in `GetMessage` only. If the engine
did so too while it is constructed or destructed, `WM_FONTCHANGE` would meet a null
`flutter_controller_`; that it does not is an assumption about code outside the repository,
which `HandlersFindTheirTargets` rests on.

Two things that the properties do not forbid, and that a reader should know of.
`Destroy` unregisters the class inside `WM_DESTROY`, while the window still exists, so
that this call has no effect in Windows; the second one behind `DestroyWindow` makes up
for it, which is what `ExitsClean` rests on. And `Utf8FromUtf16` takes 1 from the
length before it looks at it: for an argument that is no UTF-16 it asks for
2^32 - 1 bytes, which may end the program (`Terminated`).

### nptl

One action for each atomic operation that other threads can see; `pc[t]` is what
thread `t` does next. Atomics are taken to be sequentially consistent, which is
stronger than the acquire and release orders the code uses: a mistake in a memory order
is out of reach. The kernel's futex is modelled from its contract: a thread sleeps only
if the word still has the value it names, a wake-up goes to any sleeper, sleepers may
also wake by themselves. A weak exchange may fail by itself where the code lets it.

The program around a primitive is any that the primitive's own comments permit, which for
destruction is this:

- a semaphore is destroyed when every call on it has taken effect; a `sem_post` whose token
  is in the word need not have returned;
- a barrier is destroyed when no thread is blocked on it; those of complete rounds need not
  have returned;
- a condition variable is destroyed "as soon as all waiters have been signaled"
  (`NoneBlocked`): no signal or broadcast is being made, and every waiter inside is behind
  its last sleep, gives up, or has been signalled by a broadcast or by as many signals as
  there are waiters to take them. It may still hold a reference, take its signal, or be
  about to sleep; nobody is still before its registration.

What POSIX does not forbid, and the code does not withstand, is kept out by a constant or
named in the property:

- `sem_wait`: a waiter cancelled after it was woken takes the wake-up with it
  (`__sem_wait_cleanup` only deregisters), so `TokensHaveTakers` and `TokensAreTaken`
  are stated for the time before the first cancellation (`cancelled`); the safety
  properties hold beyond it.
- `pthread_once`: with `ForkInInit = TRUE`, an `init_routine` that itself forks, two
  threads of the child may be in `init_routine`: the forking thread continues there
  and its claim is of an old generation. The run has `FALSE`.
- `pthread_barrier_destroy`: with `DestroyAtThreshold = TRUE`, a barrier destroyed
  exactly when the threshold is reached is reset after `destroy` has returned. The run
  has `FALSE`; in the code the threshold is 2^31 waits away.

- `pthread_cond_destroy`: a waiter that was signalled may lose its signal to one that was
  given back (see `condvar_steal`), and `pthread_cond_destroy` then waits for it for ever:
  `DestroyedAfterUse` says that it sleeps with nobody on the way only then (`undone`). That
  it does not return too early holds in any case.

Every sleep may end for no reason, those in `__condvar_quiesce_and_switch_g1` and in
`pthread_cond_destroy` too, and a wait may give up before it looks at the futex (a time
before the epoch, a cancellation that is pending). The test for cancellation at the entry
of `sem_wait` changes nothing of the semaphore and is left out.

`CondVar` has two history variables: `owed[w]`, the signals that began while `w`
waited less the waits that returned since, and `undone`, whether a waiter has given
back a signal it may have stolen.

## Runs

| Run | Checks | Shows |
|---|---|---|
| `controller` | `TypeOK`, `ForeignResultsCameLate`, `SerialFetchesPaginate`, `PageNeverRunsAhead`, `AnswersOnlyExtend` | Whatever the order of answers, failures, scrolls and resets: foreign results only come from fetches begun before the last reset; without overlap pagination is exact; with it, pages never run ahead of the answers; an answer only extends. |
| `patient_feed` | `ImplementsFeed` | For a caller who waits for each fetch, the controller implements `PagedFeed`, in all nine categories and in search. |
| `main_page` | `PageTypeOK`, `FieldShowsSearch`, `PosterIsListed`, `OpenedItemIsListed`, `PlayerMatchesDetails`, `SpinnerResolves` | The copies kept by the page agree with the controller, also while other pages cover it; the player plays what its details page selects; once the user stops selecting, a spinner ends in a list unless the fetch failed or was empty. |
| `app` | `CompleteRepliesAreDrawn`, `WholePageOrNothing`, `MissingKeysBreakTiles`, `ErrorOnlyForBadConfig`, `LeavesSplash` | The app misses its main page only for a faulty configuration and never stays on its splash page; complete replies are never lost; a page is taken whole, each element in its place, or not at all; a tile breaks only where TMDB left out what it insists on. |
| `win_main` | `ArgumentsArriveInPlace`, `HandlersFindTheirTargets`, `HandleIsTheWindow`, `ExitsClean`, `CloseEndsProgram` | Handlers that run inside `Destroy` and the destructors find what they use, nothing is left behind whichever way the program ends, and closing the window ends it. |
| `semaphore` | `WaitersAreCounted`, `TokensHaveTakers`, `NoUseAfterDestruction`, `ImplementsTokens`, `TokensAreTaken` | The count of waiters is exact, no token is lost or left lying, and `sem_post` does not touch a semaphore its taker destroyed. |
| `once` | `OneInitializer`, `ReturnsInitialized`, `CallsReturn` | One initializer at a time, no return before its end, and every call returns, over forks and cancellations. |
| `barrier` | `NoUseAfterDestruction`, `EnteredMinusLeft`, `ImplementsRounds`, `DestroyReturns`, `ResetWakes` | Rounds of exactly `count` threads over resets; `destroy` waits for the last access and returns. |
| `condvar` | `LockMovesOn`, `WakeupsArrive`, `SleepersAreCurrent`, `SizesAgree`, `DestroyedAfterUse` | Signals and broadcasts reach their waiters in spite of time-outs, cancellations and changes of the groups; the lock never blocks everyone; `destroy`, called while signalled waiters are on their way out, waits for the last of them and is woken. |
| `spinner_stuck` | `ErrorsEndTheSpinner` (fails) | The first fetch throws, and the spinner goes on turning with nothing being loaded. |
| `tv_rating` | `RatingIsShownWhenServed` (fails) | The rating of a TV show is never displayed. |
| `condvar_steal` | `NoLostWakeup` (fails) | A signal given back by a late waiter makes the next one go to a group without waiters. |

The last three fail because the code does not do what its comments and fallbacks
say; `findings` in `PROJECT.json` quotes them. The third is the lost wake-up of
`pthread_cond_signal`: a waiter is delayed behind its own signal until its slot has
become G1 again, gives a signal back "as if it had been stolen", this signal wakes a
second waiter of the group, and the group's size stays at one although no waiter is
left in it, so the next `pthread_cond_signal` goes there while the only waiter sleeps
in G2. `WakeupsArrive` says that this is the only way to lose one: a signal is lost only
when `undone` holds, a broadcast never.

`ErrorsEndTheSpinner` is about errors, which the catch block says are handled. A successful
answer without results leaves the same spinner behind, for the page cannot tell an empty
list from one that is being loaded; nothing in the repository says otherwise, so this is
only excused in `SpinnerResolves` (`AnsweredEmpty`).

### Bounds

- *Controller*: `Fetches` bounds the fetches in flight, `MaxPage` the pages asked for,
  `PageSize` the results of an answer. With three fetches one can be stale while two of
  the current selection overlap. `MaxPage = 3` lets two answers of one selection be
  followed by a third fetch. One result for each answer is enough to see an item
  foreign, doubled, misplaced or out of order; `patient_feed` has two. `main_page` has
  two fetches, so that one of them may be late, and two seasons and episodes, so that a
  player may be opened with either.
- *App*: every content of the three keys the code reads; every method, up to two results.
- *Windows*: one window, as `wWinMain` constructs it; command lines of up to two
  arguments of up to two units, which holds every kind of unit and surrogate pair; any
  number of messages. `UIntModulus` and `MaxSize` stand for a 64-bit build, where no
  `unsigned int` exceeds `max_size()`.
- *Semaphore, once, barrier*: three threads in any roles: two wait while the third acts,
  and on a barrier for two one is always of another round. Three forks and two
  cancellations let a child fork again and a second initializer be cancelled. The
  barrier's threshold admits two rounds, so that resets happen while the third begins.
- *Condition variable*: two waiters and a signaller, three waits, three signals or
  broadcasts and two interruptions, anywhere. With `MAX_GROUP_SIZE = 1` the limit on
  waiters that gave up in G2 is reached. With three waits the first two exits of
  `UndoCheck` are not taken, which need a fourth; nor is the exit of `Switch` for an
  empty group.
- *`condvar_steal`* needs three waiters and five waits. To find its counterexample soon it
  explores only behaviours in which one thread runs at a time apart from waiters that
  have just consumed a signal (`OneAtATime`); a counterexample so found is one of the
  unconstrained model.

Deadlock is checked except in `tv_rating`, where the one call that is modelled ends,
and in the two runs of `CondVar`, whose bounded calls come to an end.

### Fairness

Each assumption is weak fairness of steps that the platform takes without waiting for
anyone; users, callers, time-outs, cancellations, forks, spurious wake-ups and
messages are never obliged to happen.

- `SpinnerResolves`: `OnAnswer(f)`, a request that is under way ends, with an answer or
  with an error. Dio completes its Future either way once the socket does; the app sets
  no timeout, so this rests on the platform closing dead connections. The property is
  conditional on the user no longer selecting.
- `LeavesSplash`: the startup chain. A timer fires, the future of `loadString` completes
  with a value or an error, and a frame that `runApp` scheduled is drawn.
- `CloseEndsProgram`: the thread goes on with what it has begun and gets the messages
  that were posted.
- `TokensAreTaken`, `CallsReturn`, `ImplementsRounds`, `DestroyReturns`, `ResetWakes`:
  a thread inside a call that is not asleep goes on, and `init_routine` ends.

## Proofs

All for every value of the constants, from the named assumptions of the modules that
declare them. There is a fetch, "Popular Movies" is offered and all categories are of the
nine, the empty text is not among the texts, `PageSize` and `MaxResults` are positive,
`MaxPage` is a number, the configuration has a key, there is at least one season and one
episode. `SEM_VALUE_MAX` and `MAX_GROUP_SIZE` are positive, the bounds of `Once` and
`CondVar` are numbers, a barrier's `count` is positive and below its threshold, threads are
finitely many and waiters of a condition variable are not its signallers. `SizesFit` says
of the command line that an argument in UTF-8 is shorter than half of the range of an
`unsigned int` and not longer than `max_size()`: Windows limits a command line to 32767
units, of at most three bytes each.

| Module | Theorem | Statement |
|---|---|---|
| `MainPageProofs` | `TypeCorrect` | `Spec => []TypeOK` |
| | `ForeignResults` | `Spec => []ForeignResultsCameLate` |
| | `PagesNeverRunAhead` | `Spec => []PageNeverRunsAhead` |
| | `OnlyExtended` | `Spec => AnswersOnlyExtend` |
| | `SerialPagination` | `Spec => []SerialFetchesPaginate` |
| | `PatientRefinement` | `PatientSpec => ImplementsFeed` |
| | `PageCallsController` | `PageSpec => Spec` |
| | `PageType` | `PageSpec => []PageTypeOK` |
| | `FieldShows` | `PageSpec => []FieldShowsSearch` |
| | `PosterListed` | `PageSpec => []PosterIsListed` |
| | `OpenedListed` | `PageSpec => []OpenedItemIsListed` |
| | `PagePlayerMatches` | `PageSpec => []PlayerMatchesDetails` |
| `DetailsPagesProofs` | `StackType` | `Spec => []TypeOK` |
| | `PlayerMatches` | `Spec => []PlayerMatchesDetails` |
| `AppProofs` | `FirstFrameFindsServices` | `AppSpec => []ErrorOnlyForBadConfig` |
| | `AllOrNothing` | `AppSpec => []WholePageOrNothing` |
| | `TilesBreakForMissingKeys` | `AppSpec => []MissingKeysBreakTiles` |
| | `CompleteIsDrawn` | `AppSpec => []CompleteRepliesAreDrawn` |
| `WinMainProofs` | `ArgumentsConverted` | `MainSpec => []ArgumentsArriveInPlace` |
| | `TargetsFound` | `MainSpec => []HandlersFindTheirTargets` |
| | `HandleCurrent` | `MainSpec => []HandleIsTheWindow` |
| | `CleanExit` | `MainSpec => []ExitsClean` |
| `OnceProofs` | `OnceType` | `Spec => []TypeOK` |
| | `OneInitializerAtATime` | `Spec => []OneInitializer`, if `~ForkInInit` |
| | `InitializedOnReturn` | `Spec => []ReturnsInitialized`, if `~ForkInInit` |
| `SemaphoreProofs` | `NoUseAfterDestroy` | `Spec => []NoUseAfterDestruction` |
| | `ExactWaiters` | `Spec => []WaitersAreCounted` |
| | `NoForgottenToken` | `Spec => []TokensHaveTakers` |
| | `TokenRefinement` | `Spec => ImplementsTokens` |
| `BarrierProofs` | `NoUseAfterDestroy` | `Spec => []NoUseAfterDestruction`, if `~DestroyAtThreshold` |
| | `ExactCounters` | `Spec => []EnteredMinusLeft`, if `~DestroyAtThreshold` |
| | `RoundRefinement` | `Spec => Rounds!Safety`, if `~DestroyAtThreshold` |
| `CondVarProofs` | `SafeDestruction` | `Spec => []DestroyedAfterUse` |
| | `ExactSizes` | `Spec => []SizesAgree` |
| | `NoStaleSleep` | `Spec => []SleepersAreCurrent` |
| | `NoLockDeadlock` | `Spec => []LockMovesOn` |
| | `NoWakeupLost` | `Spec => []WakeupsArrive` |

*The controller.* `ForeignResultsCameLate` is not inductive: it says nothing of fetches
that are still running. `IInv` adds what a running fetch begun since the last reset
knows (`FreshCallsAsk`: it asks for the current selection and for no page beyond the
current one), that its answer keeps this (`FreshAnswersAsked`), that every listed item
came in a recorded answer and sits in the list of its kind (`ListsHoldAnswers`), and
that the page counts the answers (`PageCountsAnswers`). A reset makes every running
fetch stale and empties the log, so nothing remains to be shown of the old selection.
`DispatchByKind`, that search and browse agree with the page on which list a category
uses, closes the gap between "asked for" and "displayed".

`SerialInv` adds, while nothing raced, that at most one fetch is running and that it
asks for the very page `state.page` (`OneCurrentCall`); with `PageCountsAnswers` the
next answer is the next page, which gives both the order of the lists and the step of
the feed in `PatientRefinement`.

*The details pages.* The invariant is `StackShape`: over the main page there is
nothing, one details page, or one details page and the player with the URL made from
that page as it is. `PlayerMatchesDetails` alone does not exclude two details pages
on each other, where the upper one would open a player that does not match the lower;
with the shape, a selection can change and a player open only over a single page.

*The main page.* `PageInv` puts the properties of the page together with the
controller's type and `StackShape`. What makes them hold together is that the lists are
emptied only while no page is open (`SelectPage`) and only grow otherwise
(`ReturnKeeps`). `PageCallsController` carries the controller's theorems over.

*pthread_once.* `OneInitializer` needs `Claimed`: while a thread initializes,
`once_control` holds a claim of the current generation. This sends every other thread to
sleep, and a fork makes it untrue at the very moment when it takes the initializing
thread away; it is where `~ForkInInit` is used.

*The semaphore.* `SemInv` adds to the types what a copy says (`CopiesAllow`): a thread
about to exchange the word has seen a token in it, or room for one, and the exchange
succeeds only if the word is still that. A step is then one of the abstract semaphore or
a stutter (`WaitMaps`, `PostMaps`), where a call takes effect at its exchange. The two
counting properties are inductive together with it (`CountInv`): a step moves one thread
between sets of labels, which changes the cardinalities by what `MoveCounts` says. A token
that is added finds either nobody asleep or its own poster about to wake one, and a waiter
falls asleep only if the word still has no token.

*The barrier.* `CountInv` says what `in` and `out` count, in each stage. While the barrier
is used, what `out` lacks to the positions taken are the threads inside (`WhenUsed`); when
`pthread_barrier_destroy` has added the positions nobody will take, what it lacks to the
threshold (`WhenDestroying`); during a reset one thread is alone with the counters and `in`
comes last (`ResetsAlone`); and whoever took a position beyond the threshold is still
waiting for the reset (`LateOnes`). For the rounds, `Positioned`: `current_round` and every
copy of it are at most the end of the last complete round, so that a thread takes its
round for complete only if it is, and the incomplete round has as many threads blocked as
positions taken. Then the completing thread lets go exactly the others of its round.

*The condition variable.* Six invariants over the types. `DestroyInv`: the count in
`wrefs` is that of the registered waiters, and while a destroyer sleeps one of them is
still registered or about to wake it. `SizeInv`: where the border between G1 and G2 lies during each step of a switch
(`Frontier`), that every waiter not yet settled is in the slot its position says
(`Placed`), what the lock's holder has seen (`HolderSees`), and that G2 has room for
those that may still give up (`Room`, an inequality of cardinalities). With it a waiter
that gives up shrinks the group it is in, and G2 shrinks below zero by at most
`MAX_GROUP_SIZE`. `SleepInv`: the reference counts are exact
(`RefsCount`), a group is closed while its users leave and has none when its slot is
opened again (`SeesClosed`); so nobody is between its check of `__g1_start` and its sleep
when `__g1_start` moves past it.

`LockInv` adds what keeps a signaller that sleeps with the lock from waiting for a sleeper
for ever. `Enough`: an open G1 has at most as many unsettled waiters (`Members`) as it has
signals, waiters not yet signalled, and signals in the hands of waiters of an older group
that will give them back (`Thieves`). `Attended`: the sleepers of G1, with those that saw no
signal and may give up, or did, without passing a wake-up on (`Doomed`), are not more than the waiters not
yet signalled and the threads about to wake somebody (`Rescuers`), or somebody is about
to wake them all. It is this inequality that a signal given back keeps: the thief turns
from a thief into one that is about to wake a waiter. A signaller waits for the users of a
G1 without unsignalled waiters, so if nobody can go on there are no rescuers and no
sleepers, and with `Requested` (a signaller sleeps only while its request is set or is
being answered) nobody to wait for. `LockMovesOn` holds whether signals were given back or
not.

`WakeInv` is about what a waiter `w` is owed. Either `w` is `Served`: its group is over or
signalled, or a broadcast is on its way that will reach it. A broadcast that began before
`w` is settled cannot turn back: `w` is registered, so `wrefs` is not zero, and if the
broadcast finds no room for a waiter in G2, then `w` is not there (`SeenRoom`, which is
`Room` as of the position the broadcast read). Or what is owed to `w` is at most its
`Balance`: the waiters that are sure to return with a signal (`Receivers`), less those of
them not yet signalled (`Left`), plus the signals sent but not yet added (`Flying`). A
signal that begins adds one on both sides, a return takes one from both, adding a signal
takes one from `Flying` and `Left`, and a waiter that gives up its place in G1 takes one
from `Receivers` and either from `Left` or into `Flying`. A switch turns newcomers into
receivers, and there it matters that G2 has exactly as many of them as it claims: `Joined`
and, for G1, `Filled` are the converses of `Room` and `Enough`. They hold only as long as
no signal was given back (`undone`): one more signal in G1 lets a waiter return that
nobody signalled, and the size of the group counts it still. This is where the code loses
a wake-up (`condvar_steal`).
When everybody is outside or asleep, `Attended` says that the receivers are not more than
`Left`, so the balance is not positive and nothing is owed.

`Promised` carries this over to the destruction: once `pthread_cond_destroy` is called, what
is owed to a waiter that may still sleep stays at least the number of waiters that may take
a signal, since nobody begins to wait and whoever takes one leaves. If the destroyer slept
with nobody on the way, the waiter it sleeps for would be asleep and owed a signal, which
`WakeInv` excludes.

*Startup and the service.* `StartInv`: nothing of the main page is shown before the chain
is done, and a chain that got behind `_setup` with a valid configuration has registered
`MovieService`. `CallInv`: what was replied fits the path of the method, and what was
returned is the factory applied to each element, none of which threw. With `TileBreaks`,
what a tile makes of any element, it says which tiles can be drawn.

*The Windows runner.* For the command line `LoopInv`: the strings pushed so far are those
of the arguments in order, and a length behind the test is the measured one of the current
argument. That a measured length which wraps round never reaches the engine follows from
`MeasuredLength` and `ReturnedEarly`. For the window `WindowInv` enumerates the phases of
its life: which calls may be active in each, and what is there then. It is the order of the
phases that the properties rest on: `Unfilling` comes behind `Deactivating`, so the view is
taken down when its last handler has run; the handle is forgotten before the inner
`Destroy` looks at it; a window left for the destructor was never shown; and `Finished` is
reached only from the outer `Destroy`, with no window left. The handle of a window that was
never made is met in the phases of the destructors only. The model of the window has no
constants, so TLC's check is complete as well; the proof says why.

Only model-checked:

- everything about fairness (`SpinnerResolves`, `LeavesSplash`, `CloseEndsProgram`,
  `TokensAreTaken`, `CallsReturn`, `DestroyReturns`, `ResetWakes` and the liveness in
  `ImplementsRounds`), which is beyond the prover. Every invariant and
  every action property that a passing run checks is proved.

## Not modelled

- The layout of widgets, images and their loading, and logging; the global
  `HttpOverrides` that accepts every certificate; the ad filter of the web view, one
  stateless test of a URL; the widget test.
- The console, the theme and the sizes of the Windows runner. The Linux runner is
  straight-line set-up of one GTK window; those of macOS, iOS, Android and the web are
  stubs.
- Of `nptl`: the variants for machines without 64-bit atomics, the GLIBC_2.0 semaphore,
  the futex inside the condition variable's internal lock (taken in one step), memory
  orders weaker than sequential consistency, and the clocks of time-outs (a time-out may
  come at any moment).
- The rest of glibc: a million lines, mostly tables, tests and sequential code that
  the app does not use. They are most of the repository's C, so that the models cover
  a small share of it.

## Plan

1. Done: the app, the Windows runner, and the semaphore, `pthread_once`, the barrier and
   the condition variable of `nptl`; the theorems above.
2. Next to model: `pthread_rwlock` with its phases, and the robust and
   priority-inheriting mutexes.
