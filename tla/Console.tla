------------------------------ MODULE Console -------------------------------
(***************************************************************************)
(* The debug console, kernel/console/console.c: a line editor on the VGA    *)
(* screen, the commands, and the messages of uACPI that share the screen    *)
(* with it.  Handling a key is one step, except that uACPI prints as it     *)
(* likes while it shuts the machine down: nothing else writes to the screen *)
(* once _main is in the console.                                            *)
(***************************************************************************)
EXTENDS Vga

CONSTANTS
  BUFFER,                 \* sizeof(buffer) (128)
  Letters,                \* characters the keyboard can produce
  Ver, Halt, Poweroff,    \* the three commands
  VerText, UnknownText, FailText,  \* what is printed in answer
  PmmText, MemText, VmmText,       \* what _main prints on its way
  LogText, AllocText,     \* messages of uACPI and of its allocator
  ErrText                 \* the error of init_acpi

NUL == "NUL"
Junk == "junk"

ASSUME ConsoleAssumption ==
  /\ BUFFER \in Nat \ {0}
  /\ {Ver, Halt, Poweroff} \subseteq Seq(Letters)
  /\ Letters \cap {Blank, LF, BS, NUL} = {}
  /\ {VerText, UnknownText, FailText, PmmText, MemText, VmmText, LogText,
      AllocText, ErrText} \subseteq Seq(STRING)

VARIABLES
  screen,       \* see Vga
  buffer, pos,  \* the locals of console
  pc,           \* where _main is, "edit" in the loop, or how it ended
  typed,        \* the line as its author sees it: keys less those taken back
  home,         \* the cell after the prompt
  wrapped       \* the line has reached the right margin

consoleVars == <<screen, buffer, pos, pc, typed, home, wrapped>>

ConsoleInit ==
  /\ screen = [cells |-> [i \in 0 .. VGA_CELLS - 1 |-> Junk], x |-> 0, y |-> 0,
               hw |-> 0, stray |-> FALSE, scrolled |-> 0]
  /\ buffer = [i \in 0 .. BUFFER - 1 |-> Junk] /\ pos = 0
  /\ pc = "reset" /\ typed = <<>> /\ home = 0 /\ wrapped = FALSE

-----------------------------------------------------------------------------
(* Start-up: what _main prints before the console.                          *)

uacpi_kernel_log(s) == scroll_screen(PutString(s, Append(LogText, LF)))

(* The message of uacpi_kernel_alloc when malloc gives it nothing.          *)
AllocFails(s) == PutString(s, <<LF>> \o AllocText \o <<LF>>)

Output(here, there, s) ==
  /\ pc = here /\ pc' = there /\ screen' = s
  /\ UNCHANGED <<buffer, pos, typed, home, wrapped>>

(* The two lines of pmm_init, the memory amount, and three scrolls.         *)
MemoryAmount ==
  LET printed == PutString(screen, PmmText \o MemText)
  IN Output("reset", "vmm", scroll_screen(scroll_screen(scroll_screen(printed))))

VmmInit == Output("vmm", "acpi", PutString(screen, VmmText))

(* init_acpi: uACPI prints at any time it runs, and the steps after         *)
(* uacpi_initialize are separated by a scroll.  Any of them may fail.       *)
UacpiPrints ==
  \E p \in {"acpi", "loaded", "shutdown"} :
    Output(p, p, uacpi_kernel_log(screen)) \/ Output(p, p, AllocFails(screen))

AcpiInitialized == Output("acpi", "loaded", scroll_screen(screen))

AcpiFails == \E p \in {"acpi", "loaded"} : Output(p, "console", PutString(screen, ErrText))

AcpiDone == Output("loaded", "console", screen)

(* The prompt is printed and an empty line begins.                          *)
Prompt(s) ==
  LET t == PutString(s, <<">">>)
  IN screen' = t /\ home' = At(t) /\ typed' = <<>> /\ wrapped' = FALSE /\ pos' = 0

Greet ==
  /\ pc = "console"
  /\ Prompt(PutString(screen, <<"g", LF>>))
  /\ pc' = "edit" /\ UNCHANGED buffer

-----------------------------------------------------------------------------
(* The loop, for what read_char may return.  Nothing happens for 0.         *)

(* A bug: the cursor is not moved back over the blank.                      *)
MutErase == <<BS, " ">>

Erase == <<BS, " ", BS>>

Backspace ==
  /\ pc = "edit"
  /\ IF pos > 0
     THEN pos' = pos - 1 /\ screen' = PutString(screen, Erase)
          /\ typed' = SubSeq(typed, 1, Len(typed) - 1)
     ELSE UNCHANGED <<pos, screen, typed>>
  /\ UNCHANGED <<buffer, pc, home, wrapped>>

Room == pos < BUFFER - 1

Letter(c) ==
  /\ pc = "edit"
  /\ IF Room
     THEN /\ buffer' = [buffer EXCEPT ![pos] = c] /\ pos' = pos + 1
          /\ screen' = putchar(screen, c)
          /\ typed' = Append(typed, c)
          /\ wrapped' = (wrapped \/ screen.x + 1 >= VGA_WIDTH)
     ELSE UNCHANGED <<buffer, pos, screen, typed, wrapped>>
  /\ UNCHANGED <<pc, home>>

(* The string strcmp and printf see: up to the terminator, or whatever      *)
(* follows.                                                                 *)
CString(b) ==
  LET end == CHOOSE n \in 0 .. BUFFER :
               /\ n = BUFFER \/ b[n] = NUL
               /\ \A m \in 0 .. n - 1 : b[m] # NUL
  IN [i \in 1 .. end |-> b[i - 1]]

(* A bug: the line is not terminated, so it runs on into an older one.      *)
MutTerminated == IF pos = 0 THEN [buffer EXCEPT ![0] = NUL] ELSE buffer

Terminated == [buffer EXCEPT ![pos] = NUL]

(* The answer to a line, after which the screen is scrolled once more.      *)
Answer(line, s) ==
  PutString(s, IF line = Ver THEN VerText ELSE UnknownText \o line \o <<LF>>)

Enter ==
  /\ pc = "edit" /\ CString(Terminated) \notin {Halt, Poweroff}
  /\ buffer' = Terminated /\ pc' = "edit"
  /\ Prompt(scroll_screen(Answer(CString(Terminated), PutString(screen, <<LF>>))))

(* The commands that have no answer: halt, and poweroff, which enters       *)
(* system_shutdown.                                                         *)
EnterLast ==
  /\ pc = "edit" /\ CString(Terminated) \in {Halt, Poweroff}
  /\ buffer' = Terminated
  /\ pc' = IF CString(Terminated) = Halt THEN "halted" ELSE "shutdown"
  /\ screen' = PutString(screen, <<LF>>)
  /\ UNCHANGED <<pos, typed, home, wrapped>>

(* system_shutdown: the machine goes off, or an error is printed without a  *)
(* line end and the loop goes on.                                           *)
ShutdownDone == Output("shutdown", "off", screen)

ShutdownFails ==
  /\ pc = "shutdown" /\ pc' = "edit"
  /\ Prompt(scroll_screen(PutString(screen, FailText)))
  /\ UNCHANGED buffer

ConsoleNext ==
  \/ MemoryAmount \/ VmmInit \/ UacpiPrints \/ AcpiInitialized \/ AcpiFails \/ AcpiDone
  \/ Greet \/ Backspace \/ Enter \/ EnterLast \/ ShutdownDone \/ ShutdownFails
  \/ \E c \in Letters : Letter(c)

ConsoleSpec == ConsoleInit /\ [][ConsoleNext]_consoleVars

-----------------------------------------------------------------------------
(* Properties.                                                              *)

(* The cursor is on the screen and the position in the buffer between       *)
(* calls, and no store has ever missed the screen.                          *)
ConsoleTypeOK ==
  /\ DOMAIN screen.cells = 0 .. VGA_CELLS - 1 /\ ~screen.stray
  /\ screen.x \in 0 .. VGA_WIDTH - 1 /\ screen.y \in 0 .. VGA_HEIGHT - 1
  /\ DOMAIN buffer = 0 .. BUFFER - 1 /\ pos \in 0 .. BUFFER - 1
  /\ pc \in {"reset", "vmm", "acpi", "loaded", "console", "edit",
             "shutdown", "halted", "off"}

(* Enter hands over exactly the line that was typed, whatever lines the     *)
(* buffer held before.                                                      *)
LineAsTyped == pc = "edit" => CString(Terminated) = typed

(* A row that came in from below is blank until the cursor gets to it:      *)
(* scrolling moves the text and the cursor together and leaves nothing      *)
(* behind, so output runs into old text nowhere but in rows that were on    *)
(* the screen before the kernel.                                            *)
BlankAhead ==
  \A i \in At(screen) .. VGA_CELLS - 1 :
    i >= (VGA_HEIGHT - screen.scrolled) * VGA_WIDTH => screen.cells[i] = Blank

(* While the line has not reached the right margin, the screen shows after  *)
(* the prompt the line in the buffer, and the cursor stands behind it, the  *)
(* hardware's too.                                                          *)
LineShown ==
  pc = "edit" /\ ~wrapped =>
    /\ At(screen) = home + Len(typed) /\ screen.hw = At(screen)
    /\ \A i \in 1 .. Len(typed) : screen.cells[home + i - 1] = typed[i]
=============================================================================
