------------------------------- MODULE KString -------------------------------
(***************************************************************************)
(* The functions of src/src/boot/crt0.c that libfdt calls when the kernel  *)
(* reads its device tree.  Memory is a function from addresses to bytes.   *)
(***************************************************************************)
EXTENDS Integers, FiniteSetsExt

CONSTANT REG_BYTES   \* sizeof(reg_t) = sizeof(uintptr_t)

ASSUME RegAssumption == REG_BYTES \in Nat \ {0}

(* Value of a pointer-valued function that returns NULL. *)
NOWHERE == -1

(* strrchr never advances: it does not return unless its first byte decides. *)
FOREVER == -2

(* Zero iff the n bytes are the same; otherwise the difference of the two  *)
(* pointers, which is not zero because they point to different bytes.      *)
memcmp(m1, p1, m2, p2, n) == IF \A i \in 0 .. n - 1 : m1[p1 + i] = m2[p2 + i] THEN 0 ELSE 1

(* Mutant of memchr: does not look at the last byte. *)
memchr_short(m, p, ch, count) ==
  LET at == {i \in 0 .. count - 2 : m[p + i] = ch}
  IN  IF at = {} THEN NOWHERE ELSE p + Min(at)

memchr(m, p, ch, count) ==
  LET at == {i \in 0 .. count - 1 : m[p + i] = ch}
  IN  IF at = {} THEN NOWHERE ELSE p + Min(at)

strrchr(m, p, ch) ==
  CASE m[p] = 0 -> NOWHERE
    [] m[p] = ch /\ m[p] # 0 -> p
    [] OTHER -> FOREVER

(* Without a NUL in the maxlen bytes the result is one less than maxlen. *)
strnlen(m, s, maxlen) ==
  LET zeroes == {i \in 0 .. maxlen - 1 : m[s + i] = 0}
  IN  IF zeroes = {} THEN maxlen - 1 ELSE Min(zeroes)

(* Byte by byte up to the next aligned address, then a register at a time. *)
strlen(m, s) ==
  LET aligned == IF s % REG_BYTES = 0 THEN s ELSE ((s \div REG_BYTES) + 1) * REG_BYTES
      head == {p \in s .. aligned - 1 : m[p] = 0}
      chunks[ptr \in Nat] ==
        LET zeroes == {i \in 0 .. REG_BYTES - 1 : m[ptr + i] = 0}
        IN  IF zeroes # {} THEN (ptr - s) + Min(zeroes) ELSE chunks[ptr + REG_BYTES]
  IN  IF head # {} THEN Min(head) - s ELSE chunks[aligned]
=============================================================================
