----------------------------- MODULE FaultBench ------------------------------
(***************************************************************************)
(* The page-fault experiments of the paper (expr/paper/chapter3_2_PF):     *)
(* page_tapping.cpp, whose methods touch ("tap") pages on the CPU before   *)
(* or between the submissions, and page_fault_memmove_speed.cpp, which     *)
(* prepares memory so that just the wanted kind of fault occurs.           *)
(* Memory is in pages; the device works on one page of a task at a time.   *)
(* The library is built as it is by default, without                       *)
(* INTERLEAVED_PAGEFAULT_ENABLE: it touches no page by itself.             *)
(***************************************************************************)
EXTENDS Integers

CONSTANTS
  array_pages, task_pages,      \* array_len and transfer_size
  HUGE_PAGE                          \* pages of a huge page

\* A huge page is a number of tasks: 2 MB or 1 GB, and 32 KB.
ASSUME FaultBenchAssumption ==
  /\ array_pages \in Nat /\ task_pages \in Nat \ {0} /\ HUGE_PAGE \in Nat \ {0}
  /\ \E n \in 1 .. HUGE_PAGE : HUGE_PAGE = n * task_pages

Pages == 0 .. array_pages - 1
TapEach == {"tap_needed", "tap_huge"}
TapOnly == {"tap_only", "tap_only_huge"}
Methods == {"no_tap", "tap_all", "major", "minor", "ats_miss", "without"} \union TapEach \union TapOnly
Ops == {"memmove", "memfill", "compare", "compval"}

VARIABLES
  fault_method, op_type,
  frames,       \* of each array and frame: absent, zero (read only), hole, disk, present
  data,         \* of each array and page
  fault_at,     \* the program: tap, submit, end
  task_id,            \* the task whose turn it is
  tap_at,       \* the page to be tapped next
  submitted,       \* pages submitted and not done
  faulted       \* faults the device has met: <<kind, array, page>>

fvars == <<fault_method, op_type, frames, data, fault_at, task_id, tap_at, submitted, faulted>>

\* genCopies
copies == array_pages \div task_pages
first_page(k) == k * task_pages
pages_of(k) == first_page(k) .. first_page(k + 1) - 1

is_huge == fault_method \in {"tap_huge", "tap_only_huge", "without"}
frame(p) == IF is_huge THEN p \div HUGE_PAGE ELSE p

\* What an operation reads and writes.  In "major" memfill fills the source.
FillTarget == IF fault_method = "major" /\ op_type = "memfill" THEN "src" ELSE "dest"
writes == op_type \in {"memmove", "memfill"}
Writes == IF writes THEN {FillTarget} ELSE {}
Reads == CASE op_type = "memfill" -> {} [] op_type = "compare" -> {"src", "dest"} [] OTHER -> {"src"}
Used == Reads \union Writes

FillByte(p) == IF op_type = "memmove" THEN p + 1 ELSE 0
FillPattern == -1

-----------------------------------------------------------------------------
\* The arrays each experiment writes before the clock starts.
tapping_filled == IF op_type \in {"memmove", "compare"} THEN {"src"} ELSE {}
major_filled == IF op_type = "memfill" THEN {} ELSE {"src", "dest"}
written == CASE op_type = "memfill" -> {"dest"} [] op_type = "compval" -> {"src"} [] OTHER -> {"src", "dest"}
filled == CASE fault_method = "major" -> major_filled
            [] fault_method \in {"ats_miss", "without"} -> written
            [] OTHER -> tapping_filled

\* In "major" the source is a file that is not in memory any more.
At_start(arr) ==
  IF fault_method = "major" /\ arr = "src"
  THEN IF arr \in filled THEN "disk" ELSE "hole"
  ELSE IF arr \in filled THEN "present" ELSE "absent"

\* What the program does first with task k: some methods tap its pages.
do_task(k) ==
  IF k = copies THEN "end" ELSE IF fault_method \in TapEach \union TapOnly THEN "tap" ELSE "submit"

FaultInit ==
  /\ fault_method \in Methods /\ op_type \in Ops
  /\ frames = [arr \in {"src", "dest"} |-> [f \in {frame(p) : p \in Pages} |-> At_start(arr)]]
  /\ data = [arr \in {"src", "dest"} |-> [p \in Pages |-> IF arr \in filled THEN FillByte(p) ELSE 0]]
  /\ fault_at = (IF fault_method = "tap_all" THEN "tap" ELSE do_task(0))
  /\ task_id = 0 /\ tap_at = 0 /\ submitted = {} /\ faulted = {}

\* A page that is only read shares the zero page.
Mapped(f, write) ==
  IF write \/ f \in {"hole", "disk"} \/ is_huge THEN "present" ELSE IF f = "absent" THEN "zero" ELSE f

\* The array a method taps, how far and in which steps.
Tapped == IF op_type = "compval" THEN "src" ELSE "dest"
tap_end == IF fault_method = "tap_all" THEN array_pages ELSE first_page(task_id + 1)
\* Mutant of tap_step: all pages are taken for huge.
tap_step_Huge == HUGE_PAGE
tap_step == IF is_huge THEN HUGE_PAGE ELSE 1

\* tap_write stores a zero, tap_read reads.
Tap ==
  /\ fault_at = "tap" /\ tap_at < tap_end
  /\ frames' = [frames EXCEPT ![Tapped][frame(tap_at)] = Mapped(@, writes)]
  /\ data' = IF writes THEN [data EXCEPT ![Tapped][tap_at] = 0] ELSE data
  /\ tap_at' = tap_at + tap_step
  /\ UNCHANGED <<fault_method, op_type, fault_at, task_id, submitted, faulted>>

NextTask == task_id' = task_id + 1 /\ tap_at' = first_page(task_id + 1) /\ fault_at' = do_task(task_id + 1)

TapsEnd ==
  /\ fault_at = "tap" /\ tap_at >= tap_end
  /\ CASE fault_method \in TapOnly -> NextTask
       [] fault_method \in TapEach -> fault_at' = "submit" /\ UNCHANGED <<task_id, tap_at>>
       [] OTHER                    -> fault_at' = do_task(0) /\ UNCHANGED <<task_id, tap_at>>
  /\ UNCHANGED <<fault_method, op_type, frames, data, submitted, faulted>>

SubmitTask ==
  /\ fault_at = "submit"
  /\ submitted' = submitted \union pages_of(task_id)
  /\ NextTask
  /\ UNCHANGED <<fault_method, op_type, frames, data, faulted>>

kinds(f, write) ==
  IF f = "present" \/ (f = "zero" /\ ~write) THEN {} ELSE IF f = "disk" THEN {"major"} ELSE {"minor"}

\* The device does a page of a task, the faults on the way are resolved.
PageDone ==
  \E p \in submitted :
    /\ faulted' = faulted \union UNION {kinds(frames[arr][frame(p)], arr \in Writes) \X {arr} \X {p} : arr \in Used}
    /\ frames' = [arr \in {"src", "dest"} |->
                    IF arr \in Used THEN [frames[arr] EXCEPT ![frame(p)] = Mapped(@, arr \in Writes)] ELSE frames[arr]]
    /\ data' = CASE op_type = "memmove" -> [data EXCEPT !["dest"][p] = data["src"][p]]
                 [] op_type = "memfill" -> [data EXCEPT ![FillTarget][p] = FillPattern]
                 [] OTHER -> data
    /\ submitted' = submitted \ {p}
    /\ UNCHANGED <<fault_method, op_type, fault_at, task_id, tap_at>>

FaultNext == Tap \/ TapsEnd \/ SubmitTask \/ PageDone

FaultSpec == FaultInit /\ [][FaultNext]_fvars

-----------------------------------------------------------------------------
Copied == 0 .. first_page(copies) - 1

\* The comments of the set-up code ("dest will PF", "src will PF"), and what the
\* titles of the methods say of the others.
Stated ==
  CASE fault_method \in {"no_tap", "minor"} -> {"minor"} \X {Tapped} \X Copied
    [] fault_method = "major" -> {IF op_type = "memfill" THEN "minor" ELSE "major"} \X {"src"} \X Copied
    [] OTHER -> {}

ResultRight(p) ==
  CASE op_type = "memmove" -> data["dest"][p] = p + 1
    [] op_type = "memfill" -> data[FillTarget][p] = FillPattern
    [] op_type = "compare" -> data["src"][p] = data["dest"][p]
    [] OTHER               -> data["src"][p] = 0

\* The page-fault experiments: whatever the device has done by the time the CPU
\* taps a page, an experiment meets just the faults it is about, and tapping does
\* not change its result.
FaultsAsStated ==
  fault_at = "end" /\ submitted = {} =>
    /\ faulted = Stated
    /\ fault_method \notin TapOnly => \A p \in Copied : ResultRight(p)
=============================================================================
