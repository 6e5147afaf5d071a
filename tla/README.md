# gulf, in TLA+

gulf is a Rust workspace for screen capture on Linux. This directory holds TLA+
models of its logic, TLC configurations that check them on small instances, and
TLAPS proofs of the theorems that matter most. Paths below are relative to
`src/crates/`.

## The system

The workspace is young: the PipeWire stream itself is not written yet, and most
of what is there is the ground it will stand on. Its own logic is in these
parts.

| part | source | state | operations | what is hard | what makes it correct |
|---|---|---|---|---|---|
| PipeWire channel | `capture-linux/src/pw/channel.rs` | an `Arc<Channel>` with two `AtomicFd` slots, its strong count | `channel()`, `Sender`: clone, `has_receiver`, `as_fd`, drop; `Receiver`: `as_fd`, drop | the last `Sender` closes the write end early, without a lock, by the reference count and the other slot | no end is closed under a live handle, none twice, all at the end; the `Receiver` gets its hang-up |
| `AtomicFd` | `platform-linux/src/atomic_fd.rs` | one atomic word: the bits of an `Option<OwnedFd>`, -1 for `None` | `new` and the `From`s, `swap`, `load_borrowed`, `into_inner`, duplication, drop | descriptors pass between threads as numbers, and the kernel reuses numbers | it behaves as an atomic `Option<OwnedFd>` |
| cyclic `Arc`, `Rc` | `core/src/arc.rs`, `core/src/rc.rs` | strong and weak counts, the value, the error of `init`, an unwinding payload | `TryNewCyclic`: `catch_unwind`, `panic_on_error`, `unchecked`; `rc::try_new_cyclic` | `init` may fail after it gave `Weak`s of the unwritten value to other threads | nobody touches a `T` that was not written; counts and frees are exact; errors are delivered |
| `SelectSources` | `capture-linux/src/screen.rs` | a static cache of cursor modes; for each future, where it is, its session | `run_body`, `cursor_modes`, `cursor_mode` | an await between every two steps; futures race through the cache, fail, are dropped; the portal restarts | the cursor shows exactly as wished; no call is refused for a mode the portal does not have; every call ends |
| alignments, masks | `core/src/mem/{align,mask,layout_private}.rs` | none; values | construct, convert, `min`, `max`, `clamp`, `round_up_size`, `max_size`, `from_addr` | wrapping sums, words with holes, zero; results go through `new_unchecked` | an `Align` is a power of two, a `Mask` is the mask of one; sums that wrap are refused |
| pointers to unsized types | `core/src/ptr.rs`, `core/src/ptr/*` | none; values | `compose`, `decompose`, `cast`; a probe for the layout | the place of the address in a wide pointer is found at run time; `CStr` may become thin | a chain of casts yields the words the compiler would have |
| error numbers | `platform-linux/src/errno.rs` | `errno` of the thread, two buffers on the stack | `last`, `write_message`, `format_message` | uninitialised arrays, messages that are not UTF-8 and grow when repaired, two ways in which `strerror_r` fails | no unwritten byte is read; the whole message or the right error |
| selected sources | `capture-linux/src/screen.rs` | what is left of a slice, from both ends | `iter`, clone, `into_inner`, seventeen methods of the iterator traits | every method is handed on by hand to one of the slice's iterator; closures stop early and panic | each answers what the trait says; no stream is handed out twice |
| page size | `capture-linux/src/memory.rs` | a static word, 0 for unknown | `page_size` | threads find it unknown at once, ask and store; `sysconf` fails, or says something that is no power of two | all answer one page size, the word holds nothing else; an error is that of the call |
| DMA buffers | `platform-linux/src/dma_buf.rs` | flags; the descriptor in an ioctl's payload | rights and options and their `\|`, `sync`, `import_sync`, `export_sync` | the kernel says Ok and leaves -1; `errno` is read after the call; a `\|` ends in `unreachable_unchecked!()` | an exported descriptor has one owner; flags are the bits that went in |
| powers of two | `core/src/num/pow2.rs` | none; values | `from_exponent`, `checked_mul`, `checked_div` | the sum of two exponents in a byte | a product or quotient is exact, or `None` |

How they interact:

- The two slots of a `Channel` are `AtomicFd`s behind an `Arc` that all handles
  share. `Sender::drop` and `Receiver::drop` swap a slot with `None` and close
  what they get; freeing the `Channel` drops both slots. `Channel` models a slot
  as what `AtomicOption` says an `AtomicFd` is (one atomic swap or load);
  `AtomicFd` is proved to implement that.
- `SelectSources` sends requests over D-Bus to the desktop portal, which is
  another process, and ends with a PipeWire descriptor in `SelectedSources`.
- The wrappers around libc (`pipe2`, `fcntl`, `strerror_r`, ioctls) return
  an `Errno`. `page_size` and the ioctls meet in it: what one call leaves there
  is what the next of its thread finds.
- `page_size` keeps its answer as an `Align`; `Align` and `Mask` stand for each
  other.

## Modules

Each component has a module with its state, `Init`, one action per operation or
atomic step, `Next`, its invariants and properties; mostly an `MC` module that gives
values to its constants; one or more `.cfg`; and a `Proofs` module. Definitions
whose comments say *Mutant* or *must not* are faulty variants of the one below
them: exchanging one for the other breaks a property, which shows that the
property depends on the code.

    PipeLifetime <-- Channel     <-- MCChannel, ChannelProofs   ChannelOpen
    AtomicOption <-- AtomicFd    <-- MCAtomicFd, AtomicFdProofs
    AtomicOption <-- ChannelProofs
    CyclicLifetime <-- CyclicArc <-- MCCyclicArc, CyclicArcProofs
                     ScreenCast  <-- MCScreenCast, ScreenCastProofs
    MemLayout, PowerOfTwo       <-- Align       <-- MCAlign, AlignProofs
    MemLayout, ThreadErrno      <-- PageSize  --+
    ThreadErrno                 <-- DmaBuf    --+-- KernelCalls <-- MCKernelCalls,
                                                                    KernelCallsProofs
                     Pointers    <-- MCPointers, PointersProofs
                     Errno       <-- MCErrno, ErrnoProofs
                     SelectedSources <-- MCSelectedSources, ScreenCastProofs

### Channel, PipeLifetime, ChannelOpen

`Channel` follows each handle through its drop, one step for each atomic
operation. `strong` is the count of the `Arc`; `sender` and `receiver` are the
slots; `hand[p]` is the descriptor that `p` has swapped out and not yet closed;
`open` is what the kernel has open. `DropSender` is the `match` on
`Arc::strong_count` (`DropBranch` names its arms), `CheckReceiver` the guard of
the arm for two, `SwapSender` and `CloseHand` its body, `Release` the drop of the
`Arc` field after `Drop::drop` returns, `FreeSender` and `FreeReceiver` the drops
of the fields of the `Channel`. A handle that reaches an
`unreachable_unchecked!()` stays in the phase `undefined`.

`Arc::strong_count` is a relaxed load. So it may return an older count:
`counts[h]` holds the counts that `h` may still read, those the `Arc` has had
since `h` itself last changed it (a handle and its clone know of the clone). And
it does not acquire what the `Receiver`'s drop released: the load of the receiver
slot after it may return the older value, until the handle has seen the newer one
(`aware`, which clones inherit). Handles on one thread, or handed from one to
another, would know more; the model lets each know as little as it may.

Three history variables say when the code is beyond what it can promise:
`misled`, a `Sender::drop` went by an older value of the slot; `miscounted`, an
older count led a `Sender::drop` to another arm than the latest would have; and
`overlapped`, a `Sender::drop` began while another was in progress.

- What needs none of them holds always: `SoleOwner`, `Teardown`.
- The abstract pipe and the ends of the Senders are kept up to the first drop
  that is misled, however old the counts are. An old count cannot do harm there:
  it says one or two only to a Sender that is alone, or when the Receiver is gone
  (`CountsTell`).
- The hang-up (`SerialDropsClear`, `HangupDelivered`) is promised while no two
  drops have overlapped and none was miscounted. Both exceptions do lose it: two
  drops at once each count the other, and a Sender that drops after another,
  without being ordered after it, may still count that one. Owners that order
  their drops (on one thread, by a join, through a lock) meet neither.

`PipeLifetime` is the promise: handles come and go, and an end of the pipe is
closed only after all of its handles were dropped. `ImplementsPipe` maps
`Channel` to it: the senders are those whose owner can still use them.

`ChannelOpen` is `channel()` up to the handles: the pattern that copies the
two elements of the array, `pipe2`, the `match`. `Init` of `Channel` is what the
lines after that `match` build. At this commit they are not reached (see
*Findings*), so `Channel` describes what the handles do once that line is
repaired.

### AtomicFd, AtomicOption

Each opening of a number by the kernel gets a token, so that a number that was
closed and reopened can be told from what it was; `table` maps numbers to
tokens. Threads open and close descriptors, exchange theirs with the word
(`Swap`), borrow it (`Load`), duplicate what they borrow (`Duplicate`, which is
`F_DUPFD_CLOEXEC` with 3 as the least number), make and consume the `AtomicFd`
(`New`, `IntoInner`, `Drop`). `load_borrowed` is unsafe; its contract, that what
was borrowed is not closed while the borrow lasts, is the guard `~Lent`. The
memory orders of the word are left out: it is a single atomic location, and
nothing else is published through it in this model.

`AtomicOption` is what the documentation calls it equivalent to: a shared
option, with unique resources for descriptors and no numbers at all.

### CyclicArc, CyclicLifetime

One call of a constructor and any number of other owners. The call's `pc` goes
through `Arc::new_cyclic` (allocate, run the closure, write, make the strong
count one) and the closure's own steps. The four `strategy` values are the three
of `TryNewCyclic` and the `Rc` form; they differ in `InitErr`, `WriteUninit`,
`CheckAlone`, `UnwindWeak` and `Catch`. Others hold `Weak<T>`s that `init`
handed out, upgrade them, read, downgrade and drop, at any time, or, for `rc`,
only while `init` runs or after the call (`OthersRun`). The contract of
`unchecked()`, that no `Arc<T>` is made during the call, is `MayUpgrade`.
`CheckAlone` is compiled with debug assertions only; without them the call goes
from `errWrite` to `drop`, as it does in the `rc` strategy, so no state is
missed. The standard library's abort when a count overflows is left out.

`CyclicLifetime` is the promise, with no counts, no `Weak` and no unwinding: the
constructor ends with a value that the caller has an `Arc` of, or there never is
one; an `Arc` is only made while there is another, the value is dropped once,
after the last, and the memory freed once, after the value. `ImplementsLifetime`
maps `CyclicArc` to it: the outcome is `none` until `pc` is one of `Over`. A failed
call may leave the memory to the `Weak`s that `init` handed out.

### ScreenCast

One `pc` per future, one value for each `await` or access of the cache in
`run_body`. `cache` is the static, a set of modes, empty for 0. `Fail` is the `?`
after a request, `Cancel` a future dropped at an await (there is none at the
load and the store of the cache). The portal is external: it offers a set of
modes, closes the session of a call that asks for a mode it does not offer, and
may be replaced by one that offers something else (`Restart`), after which
requests on older sessions can only fail. Source types, the persist mode and
the restore token are passed on unread and are left out.

### MemLayout, Align

`MemLayout` has the operations as operators over words of `Bits` bits, an
`Option` as a set of at most one value. Powers of two are a constant function
`Pow` with its defining equations as assumption. `PowerOfTwo` has those on
exponents: `Widest` is 128 and `ByteSize` 256 in the code. `Align` is a caller
that holds an `Align`, a `Mask`, a `usize` and a `PowerOfTwo`, and applies any
operation to them. The trait implementations that forward to these are left out.

### ThreadErrno, PageSize, DmaBuf, KernelCalls

`ThreadErrno` is what the calls share: where in a call each thread is (`at`), its
`errno`, what the call answered (`error`) and, as history, what went wrong in it
(`failed`). Nothing clears `errno`, and it starts as anything. `PageSize` and
`DmaBuf` are threads that make calls, one step for each access of shared state or
call into the kernel; `KernelCalls` composes them over the same threads, so that a
thread comes to either with what the other left in its `errno`.

In `PageSize`, `LoadPage` is the load of `CACHE`, `AskSystem` `sysconf`,
`PageUnknown` and `ConvertPage` the two conversions and their errors, `StorePage`
the store. A thread that did not see a store may miss it (`knows`).
`sysconf` is taken to set `errno` where it answers -1.

In `DmaBuf`, `options` is a `SyncOptions` that some caller puts together from
rights and other options, with all that went into it as history (`wanted`). `Sync`,
`Import` and `Export` are the ioctls, whose outcome is the kernel's;
`TakeExported` is the `match` on the payload's descriptor, and the `OwnedFd` made
of it. A descriptor that the kernel opens is some number that is not open. The
conversions of descriptors between `c_int` and `i32` cannot fail on Linux.

### SelectedSources

`rest` is the slice's iterator, `SliceNth`, `SliceNthBack` and `StopsAt` are what
the standard library's does. A method without a closure is one step. One with a
closure is `Begin`, one `Ask` for each stream until the answer that decides or
`End`; `Panic` is a closure that panics, after which an iterator that was only
lent may go on being used. One method runs at a time: the iterators share only
what none of them changes. What was handed out is kept in order, from either
end, in `front` and `back`, which a clone inherits.
`SelectedSource::to_owned` (one `dup`, one clone) and `Debug` (which walks a clone)
are left out.

### Pointers

`Native` is the compiler: the words of a pointer, for the unspecified order
`LengthLast`. `SliceLayout` is the probe (a slice at 0xFF), `LayoutOf` the
`LAYOUT` of each pointee, `Compose`, `AddressIn`, `MetadataIn` and `CastMetadata`
the functions. The state is a pointer in hand with the address and the length it
was made with; `Cast` is allowed where the trait `CastMetadata` is implemented.
Both `LengthLast` and `CStrIsThin` (today's compiler: address first, wide `CStr`)
are constants, since the code is written to work whatever they are. The words are
right for a thin `CStr` too (`Inv`); but the impls of `CastMetadata` between it
and `usize` would then let a cast from one word to two compile, and panic, so
`NeverPanics` is checked and proved for a wide `CStr` only.

### Errno

One call of `format_message`: `Fill` the first buffer, `strerror_r` (external),
then the chunks of `utf8_chunks` copied to the second buffer piece by piece. The
bytes are letters, a malformed part (`bad`), the terminator, `uninit`, and the
three bytes of a replacement character (`sub`). `strerror_r` reports an error by
its result or through `errno`, which the code tells apart. What `Display` makes
of the error, and what the formatter itself answers, are left out.

## Runs

Deadlock is checked in every run. `Channel` and `CyclicArc` state where everything
has ended (`Terminated`); the others can always go on.

| run | what it shows | bounds |
|---|---|---|
| `channel` | An open descriptor has one owner, a closed one none, and when all handles are dropped both ends are closed: always. A live handle keeps its end, no `unreachable_unchecked!()` is reached and the slots implement `PipeLifetime`: until a drop is misled. The last Sender closes the write end and the Receiver gets its hang-up: unless two drops overlapped, or an old count led one to another arm | 3 Senders, 1 Receiver |
| `channel_concurrent_drops` | (violation) two Senders dropped at once, or one after the other with an old count, leave the write end open | as above |
| `channel_stale_as_fd` | (violation) with a stale load of the receiver slot the write end is closed under a live Sender | as above |
| `channel_open` | (violation) `channel()` answers `EBADF` after every `pipe2` that succeeds | room for 4 descriptors |
| `atomic_fd` | Under swaps, borrows, duplication and drops each descriptor has one owner; what is borrowed is not confused with a later one of its number; duplicates stay off stdio; it implements `AtomicOption` | 2 threads, 5 numbers, 3 tokens |
| `cyclic_arc` | In all four constructors: no `T` read or dropped that was not written, exact counts, one free, no abort, errors delivered exactly when `init` failed; it implements `CyclicLifetime` | 2 other owners, all strategies; symmetric |
| `screen_cast` | While the portal stays: the cursor is in a stream exactly if wished and available, a call is refused for its mode only by a portal that offers none it could do with; over any restarts, no cursor shows unasked; every call ends | 2 calls, 4 kinds of portal |
| `align` | Every result is a power of two or a mask; masks mirror alignments; the arithmetic agrees with the bits; `from_addr` is the largest alignment; `round_up_size` the least multiple, or `None` where that overflows and for size 0; what is within `max_size` can be rounded up (but for 0) and still is; products and quotients of powers are exact or `None` | 5-bit words, all of them; exponents 0 to 5 in a byte of 12 values |
| `pointers` | Every chain of casts yields the compiler's words; no cast panics | 5 addresses, 5 lengths, address first, wide `CStr` |
| `errno` | No unwritten or malformed byte is taken for text; the whole message with replacements, or the error of this very call | all messages of up to 6 bytes over 3 kinds of byte, buffers of 6 |
| `kernel_calls` | Each call answers its own error, or Ok; the threads agree on the page size and `CACHE` holds no other; an exported sync file has one owner; flags are the bits that went in | 2 threads, 2 errors, 2 descriptors; page sizes 0, 4 and 6 |
| `sources` | Each overridden method answers, asks and leaves what the trait says; no stream is handed out twice or out of order, also after panics | 2 iterators, up to 3 streams, skips of up to 3 |

Why these bounds are enough to be interesting:

- Three Senders are the least for which a third party acts between the count
  that one reads and the decision it takes: one drops, one clones or drops at
  the same time, one only uses its descriptor. `ChannelProofs` proves
  the same invariants for any number.
- Five numbers leave two above stdio, so that duplicates compete for numbers and
  run out of them; three tokens for two threads and the word let all be filled.
  A token is used again only when nobody remembers it.
- Two other owners of a `Weak` are enough for one to upgrade while another
  drops the last reference.
- The portals: one that offers nothing (whose answer looks like an unset cache),
  one that cannot hide the cursor, one that cannot draw it, one that can do
  everything.
- Six bytes: messages that just fit, that are too long for the first buffer,
  and that fit it and outgrow the second when their malformed parts are replaced.
- Page sizes: one that looks like an unset cache, one that is no power of two,
  one that is. Two threads are enough for one to ask while the other stores, and
  to have an `errno` each.
- Three streams are the least for which a method stops with some taken from
  each end and some left; a skip of three goes past the end.
- Five-bit words have every case of a wrapping sum, of zero and of a hole.

## Fairness

- `Channel`: weak fairness of `Progress(p)`, the rest of a drop that has begun.
  A drop waits for nothing: each of its steps is enabled until it is taken. No
  caller is assumed to drop, clone or do anything else.
- `ScreenCast`: weak fairness of `Step(c) \/ Fail(c)`: a request gets an answer
  or an error, and a future that was answered is polled. Nothing is assumed of
  which it is. A user who leaves the portal's dialog open for ever is outside it.

The other specifications have no liveness property and no fairness.

## Findings

- `channel_open`: `let mut fds @ [receiver, sender] = [-1 as c_int; 2]` copies
  the elements before `pipe2` writes the array, and the `match` looks at the
  copies. So `channel()` always fails, and leaks two descriptors when `pipe2`
  succeeds. The comment on that arm, "Just in case libc is fucked.", takes it for
  one that is not reached.
- `channel_concurrent_drops`: two Senders dropped at once, with a live
  Receiver, both read a count of three before either releases. Neither closes the
  write end, and the Receiver waits for ever. The same comes of two drops in a
  row, if nothing orders the second after the first and its relaxed load still
  returns three. The doc of the slot says that it is `-1` if the writer has
  dropped.
- `channel_stale_as_fd`: the count is read relaxed, so a Sender that counts two
  (itself and another Sender, the Receiver being gone) may still read the
  Receiver's slot as full and take the write end; the other Sender's `as_fd` then
  reaches `unreachable_unchecked!()`. The comment there speaks of "a guarantee of
  no other senders existing".

Two smaller things, noted and not among the runs:

- `round_up_size(0)` is `None` although nothing overflows, since 0 is no
  `NonZero`. Its doc (`core/src/mem/align.rs:317`) names only the overflow.
  `RoundUpIsLeast` states size 0 as an exception.
- A portal that offers neither `Hidden` nor `Metadata` refuses a caller who does
  not want the cursor, since `Hidden` is asked for without a look.
  `RefusedIfNoneServes` says that, while the portal stays, this is the only way
  to be refused, next to that of a portal that offers no mode at all.

## What is proved

All theorems are for every value of the constants, from the assumptions named in
the modules (`ChannelAssumption`, `AtomicFdAssumption`, ...: finite sets of
handles, distinct descriptors, and the like).

| module | theorems | argument |
|---|---|---|
| `ChannelProofs` | `InvHolds`, `OneOwner`, `LatestHolds`, `EndsKept`, `ProtectedByReceiver`, `SerialDrops`, `NothingStaysOpen`, `SlotsImplemented`, `PipeImplemented` | `Inv`: the count is the number of handles that refer to the `Channel`; `CountsTell`, that a count a Sender may still read is one only for the last handle, and two only for the last Sender or without a Receiver; the receiver slot is full exactly while the Receiver lives; each end is in its slot, in one hand, or closed. `LatestInv` adds, until a drop is misled, what `Sender::drop` reasons from: a Sender that counted two is alone, or there is no Receiver for its second look to find. `SerialInv` adds that, while drops do not overlap, none was miscounted and the Receiver lives, the last Sender is on its way to the write end. `PipeImplemented` maps each step to one of `PipeLifetime`, a stutter, or one after a misled drop. `MisledAfterReceiver`: no drop is misled while the Receiver lives, since its slot is full until it goes, so every part of `LatestInv` is unconditional until then. `SlotsTended`: a full slot has a handle that refers to the `Channel` or is about to empty it, so nothing is open when all are gone. `SlotsImplemented` takes each step on each slot to one of `AtomicOption`, or a stutter: with `OptionImplemented` the two components meet at that abstraction |
| `AtomicFdProofs` | `InvHolds`, `BorrowsStayValid`, `StdioIsSpared`, `OptionImplemented` | `Inv`: open numbers are exactly the owned ones, each with one owner and its own token; borrowed numbers keep theirs |
| `CyclicArcProofs` | `InvHolds`, `NeverUndefined`, `NoAbort`, `NoLeak`, `ErrorsReachCaller`, `LifetimeImplemented` | `Inv`: the counts equal the references held by the owners, by the value and by the call itself at each `pc`; an `Arc<T>` exists only after the value was written. On failure the two unwinding strategies never raise the strong count; the other two do, while nobody else can upgrade: for `rc` because the others run on the same thread, for `unchecked` by its contract. `LifetimeImplemented` maps each step to one of `CyclicLifetime` or a stutter: an upgrade that succeeds finds another `Arc` because the call itself counts for one only where nobody else may upgrade. `NoLeak` adds that nothing stays allocated once the call is over and no reference is left |
| `ScreenCastProofs` | `TypeHolds`, `InvHolds`, `CursorHolds`, `NotRefused`, `NotShownUnasked`; of `SelectedSources`: `HandedOutHolds`, `AnswersHold` | `Inv`: while one portal stays, the cache is unset or what it offers, and so is what every call goes by. `SourcesInv`: what went out in front, what is left and what went out at the back are parts of the result, in its order. `CallInv`: a method that is asking its closure has asked the first so many streams on its way, and would leave what it says it leaves |
| `AlignProofs` | `TypeHolds`, `MirrorHolds`, `BitsHold`, `AddrHolds`, `RoundUpHolds`, `FitsHolds`, `PowersHold` | `TypeOK` is inductive; the rest follow from it and from lemmas on division. Bit `i` of a word is whether its quotient by the power `i` is odd; a mask is the words below a power taken from the largest word, so its bits are those from there up. Induction on the exponent is replaced by refuting a least counterexample |
| `PointersProofs` | `InvHolds`, `CastsSucceed` (for a wide `CStr`) | the words in hand are `Native`, and `Compose` and the two parts of decomposition are inverse on such words, because the probe finds the order that `Native` has |
| `ErrnoProofs` | `TypeHolds`, `InitialisedHolds`, `WholeHolds` | `IInv` adds to `TypeOK` what each step starts from (which buffer is filled, that the malformed part is next in `rest`), and that `index` counts the written bytes. `Progress`: what is written is the lossy text of the part of the message that is no longer in the chunks. It rests on lemmas that the lossy text of an appended byte, and so of a concatenation, is that of its parts |
| `KernelCallsProofs` | `InvHolds`, `AnswersHold`, `PageSizeHolds`, `FilesHold`, `FlagsHold` | `ErrnoKept`: between a call that failed and the look at `errno`, the thread's `errno` is that failure. A descriptor that the kernel opened is new, so it is in one payload, then with one owner. Rights are closed under their `\|`, so that joining options joins their flags |

Why an invariant needs its other parts: `NoUndefined` of `Channel` says nothing of
counts, but that no Sender finds its slot empty rests on the Sender that emptied
it having been alone, which rests on the receiver slot telling the truth and on
what an old count tells. That (`CountsTell`) is kept because the newest count is
exact when it enters the set, and because what it told stays true: only its own
clone can join a Sender that is alone, and both then read the count anew. In the same way `NoUndefined` of `CyclicArc` rests on
exact counts, and `BorrowsValid` of `AtomicFd` on each number having one owner.

### Only model-checked

- Liveness: `Teardown`, `HangupDelivered`, `Answered`. The prover has no rule
  for fairness.
- That the handles get to where `NothingStaysOpen` and `NoLeak` start: that
  everybody drops what they hold is up to the callers.

Every invariant that a run checks is stated by a theorem. The replaced text of a
message is a fold over data: what a proof needs of it for every message is proved by
refuting a least counterexample instead of by induction, since the library's
induction theorems take an operator that no prover here can instantiate.

`NoLeak`, `NothingStaysOpen`, `ProtectedByReceiver` and `SlotsImplemented` state more
than the runs check; TLC found them to hold on the instances of `cyclic_arc` and
`channel` before they were proved.

## Not modelled

- `SelectedSource::to_owned` and the `Memory` type: a `dup` and a clone; a sum
  type with conversions into it.
- Traits and helpers without state: type equality, macros, hints, formatting,
  hashing, conversions that reinterpret a number.
- Stubs: `send_many` is `todo!()`, the channel's buffer is not used; the video,
  audio and POD modules are empty or only declare; the front end `capture` is
  commented out; `core/src/platform` is an older form of `platform-linux` that is
  not compiled; `list` is empty.

## Plan

Done, in this order: `Channel` with `PipeLifetime` and `ChannelOpen`; `AtomicFd`
with `AtomicOption`; `CyclicArc`; `ScreenCast`; `MemLayout` and `Align`;
`Pointers`; `Errno`; the proofs of each; `Channel` with old loads and overlapping
drops in one specification; `PowerOfTwo` next to the alignments; `ThreadErrno`,
`PageSize`, `DmaBuf` and their composition; `SelectedSources`.

Next, in the order of what they would show:

1. An abstract specification of the screen cast's cache, and `KernelCalls` shown to
   implement one of a page size that never changes.
2. The PipeWire stream, once it is written: `send_many` and the channel's buffer.

## Checking

    tlc -config Channel.cfg MCChannel      (and so on for each .cfg)
    tlapm ChannelProofs.tla                (and so on for each Proofs module)

`ChannelOpen.cfg` belongs to `ChannelOpen`. The other configurations whose names
begin with `Channel` belong to `MCChannel`.
