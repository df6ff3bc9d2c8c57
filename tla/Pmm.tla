-------------------------------- MODULE Pmm ---------------------------------
(***************************************************************************)
(* The physical memory manager of kernel/mm/pmm.c: a bitmap with one bit    *)
(* per 4 KiB page frame and a counter of the clear bits.  The module gives  *)
(* the state and the operations; MemBoot and AcpiMap are the systems that   *)
(* call them.                                                               *)
(*                                                                          *)
(* The bitmap is modelled by the set of pages whose bit is set (used).      *)
(* free_pages is a uint64_t, so it wraps at WORD (2^64 in the code).        *)
(***************************************************************************)
EXTENDS Integers, FiniteSets

CONSTANTS
  MAX_PAGES,       \* pages the bitmap tracks (64 GiB / 4 KiB)
  LOW_PAGES,       \* pages below the 8 MiB low-memory limit (2048)
  PMM_PAGE_SIZE,   \* bytes in a page (4096)
  WORD             \* number of values of a uint64_t

ASSUME PmmAssumption ==
  /\ MAX_PAGES \in Nat /\ MAX_PAGES > 0
  /\ LOW_PAGES \in Nat /\ LOW_PAGES <= MAX_PAGES
  /\ PMM_PAGE_SIZE \in Nat /\ PMM_PAGE_SIZE > 0
  /\ WORD \in Nat /\ WORD > MAX_PAGES

VARIABLES
  bitmap,          \* the pages whose bit is 1, i.e. marked used
  free_pages       \* the counter kept beside the bitmap

Pages == 0 .. MAX_PAGES - 1

(* The free pages according to the bitmap.                                  *)
FreeSet == Pages \ bitmap

-----------------------------------------------------------------------------
(* One bit.                                                                 *)

page_used(page) == page \in bitmap

set_page(page) == bitmap' = bitmap \cup {page}

clear_page(page) == bitmap' = bitmap \ {page}

(* free_pages++ and free_pages-- on a uint64_t.                             *)
Inc(n) == IF n = WORD - 1 THEN 0 ELSE n + 1

Dec(n) == IF n = 0 THEN WORD - 1 ELSE n - 1

-----------------------------------------------------------------------------
(* Operations.                                                              *)

(* A bug in pmm_init: the loop sets one bit too many.                       *)
MutPmmInit ==
  /\ bitmap' = 0 .. MAX_PAGES
  /\ free_pages' = 0

pmm_init ==
  /\ bitmap' = Pages
  /\ free_pages' = 0

(* First and one-past-last page of the loop of pmm_add_region: the base is  *)
(* aligned up, the end down, both in 64-bit arithmetic.                     *)
AddStart(base, length) == ((base + PMM_PAGE_SIZE - 1) % WORD) \div PMM_PAGE_SIZE

AddEnd(base, length) == ((base + length) % WORD) \div PMM_PAGE_SIZE

(* First and one-past-last page of the loop of pmm_reserve_region: the base *)
(* is aligned down, the end up.                                             *)
ReserveStart(base, length) == base \div PMM_PAGE_SIZE

ReserveEnd(base, length) ==
  ((base + length + PMM_PAGE_SIZE - 1) % WORD) \div PMM_PAGE_SIZE

(* A bug in the loop body below: the counter moves even for a free page.    *)
MutAddPageCountsAlways(page) ==
  /\ clear_page(page)
  /\ free_pages' = Inc(free_pages)

(* One iteration of the loop of pmm_add_region.                             *)
AddPage(page) ==
  IF page_used(page)
  THEN clear_page(page) /\ free_pages' = Inc(free_pages)
  ELSE UNCHANGED <<bitmap, free_pages>>

(* One iteration of the loop of pmm_reserve_region.                         *)
ReservePage(page) ==
  IF ~page_used(page)
  THEN set_page(page) /\ free_pages' = Dec(free_pages)
  ELSE UNCHANGED <<bitmap, free_pages>>

(* The page the scan "for (page = 1; page < limit; page++)" stops at.       *)
FirstFree(page, limit) ==
  /\ page \in 1 .. limit - 1
  /\ ~page_used(page)
  /\ \A q \in 1 .. page - 1 : page_used(q)

NoneFree(limit) == \A q \in 1 .. limit - 1 : page_used(q)

(* A bug in the allocation below: the bit of the page is left clear.        *)
MutTakePageKeepsBit(page) ==
  /\ UNCHANGED bitmap
  /\ free_pages' = Dec(free_pages)

(* What both allocators do with the page they found.                        *)
TakePage(page) ==
  /\ set_page(page)
  /\ free_pages' = Dec(free_pages)

pmm_alloc_page(page) ==
  /\ FirstFree(page, MAX_PAGES)
  /\ TakePage(page)

(* A bug in pmm_alloc_page_low: the limit is taken to be inclusive.         *)
MutAllocLow(page) ==
  /\ FirstFree(page, LOW_PAGES + 1)
  /\ TakePage(page)

pmm_alloc_page_low(page) ==
  /\ FirstFree(page, LOW_PAGES)
  /\ TakePage(page)

(* The early returns of pmm_free_page: misaligned, out of range, free.      *)
FreeIgnored(address) ==
  \/ address % PMM_PAGE_SIZE # 0
  \/ address \div PMM_PAGE_SIZE >= MAX_PAGES
  \/ ~page_used(address \div PMM_PAGE_SIZE)

pmm_free_page(address) ==
  IF FreeIgnored(address)
  THEN UNCHANGED <<bitmap, free_pages>>
  ELSE /\ clear_page(address \div PMM_PAGE_SIZE)
       /\ free_pages' = Inc(free_pages)

=============================================================================
