-------------------------------- MODULE Cmac --------------------------------
(***************************************************************************)
(* tinycrypt's AES-CMAC (cmac_mode.c), which every check of a secure        *)
(* connection goes through: the session a caller drives by setup, init,     *)
(* update, final and erase, in any order once it has set the key.  Blocks   *)
(* have few and narrow bytes but are computed with byte by byte; AES is a   *)
(* symbol, injective, with one known point: a key is told by the block it   *)
(* encrypts the zero block to.  A value is therefore a symbol and a block   *)
(* added to it.                                                             *)
(***************************************************************************)
EXTENDS Naturals, SequencesExt, Bitwise

CONSTANTS
    TC_AES_BLOCK_SIZE,  \* bytes of a block
    ByteBits,           \* bits of a byte
    gf_wrap,            \* what a bit shifted out of the field is worth
    Keys,               \* the blocks the keys encrypt the zero block to
    Data,               \* the bytes of messages
    MaxLength,          \* bound on the bytes of a message
    MAX_CALLS,          \* updates a session allows
    MaxSessions         \* bound on calls of setup and init

Byte  == 0 .. 2 ^ ByteBits - 1
Block == [1 .. TC_AES_BLOCK_SIZE -> Byte]

ASSUME CmacAssumption ==
    /\ {TC_AES_BLOCK_SIZE, ByteBits, MAX_CALLS} \subseteq Nat \ {0}
    /\ gf_wrap \in Byte /\ Data \subseteq Byte /\ Keys \subseteq Block
    /\ {MaxLength, MaxSessions} \subseteq Nat

TC_CMAC_PADDING == 2 ^ (ByteBits - 1)
ZeroBlock  == [i \in 1 .. TC_AES_BLOCK_SIZE |-> 0]
Plus(a, b) == [i \in 1 .. TC_AES_BLOCK_SIZE |-> a[i] ^^ b[i]]

\* a value: a result of AES, or nothing, with a block added
Nothing      == <<>>
ZeroValue    == [aes |-> Nothing, plus |-> ZeroBlock]
Added(v, b)  == [v EXCEPT !.plus = Plus(@, b)]
Aes(k, v)    == IF v = ZeroValue THEN [aes |-> Nothing, plus |-> k]
                                 ELSE [aes |-> <<k, v>>, plus |-> ZeroBlock]

\* Without a key schedule it fails and writes nothing; no caller looks at that.
NoKey == Nothing
tc_aes_encrypt(out, v, sched) == IF sched = NoKey THEN out ELSE Aes(sched, v)

-----------------------------------------------------------------------------
\* byte 1 is the most significant
gf_double(in) ==
    [i \in 1 .. TC_AES_BLOCK_SIZE |->
        ((2 * in[i]) % 2 ^ ByteBits)
        ^^ (IF i < TC_AES_BLOCK_SIZE THEN in[i + 1] \div 2 ^ (ByteBits - 1)
            ELSE IF in[1] \div 2 ^ (ByteBits - 1) = 1 THEN gf_wrap ELSE 0)]

Erased == [iv |-> ZeroValue, K1 |-> ZeroBlock, K2 |-> ZeroBlock, leftover |-> ZeroBlock,
           leftover_offset |-> 0, sched |-> NoKey, countdown |-> 0]

Started(s) == [s EXCEPT !.iv = ZeroValue, !.leftover = ZeroBlock, !.leftover_offset = 0,
                        !.countdown = MAX_CALLS]

WithKey(k) ==
    LET K1 == gf_double(tc_aes_encrypt(ZeroValue, ZeroValue, k).plus)
    IN  Started([Erased EXCEPT !.sched = k, !.K1 = K1, !.K2 = gf_double(K1)])

-----------------------------------------------------------------------------
VARIABLES
    s,         \* the caller's tc_cmac_struct
    tag,       \* the caller's buffer; it is new with every session
    key,       \* the key of the last setup
    message,   \* what updates took since the last setup or init
    closed,    \* the last of them filled up the bytes left over and ended there
    sessions

vars == <<s, tag, key, message, closed, sessions>>

NoTag == Nothing

NewSession ==
    /\ sessions < MaxSessions
    /\ sessions' = sessions + 1
    /\ tag' = NoTag /\ message' = <<>> /\ closed' = FALSE

tc_cmac_setup(k) == NewSession /\ s' = WithKey(k) /\ key' = k

tc_cmac_init == NewSession /\ s' = Started(s) /\ UNCHANGED key

Erase == Erased
tc_cmac_erase == s' = Erase /\ UNCHANGED <<tag, key, message, closed, sessions>>

\* b with the bytes of d from position at + 1
Overwritten(b, at, d) ==
    [i \in DOMAIN b |-> IF i - at \in DOMAIN d THEN d[i - at] ELSE b[i]]

Chained(st, b) == [st EXCEPT !.iv = tc_aes_encrypt(Added(@, b), Added(@, b), st.sched)]

\* Variant: the last block is encrypted at once when it is full.
TakenWithLastBlock(st, d) ==
    LET n    == Len(d) \div TC_AES_BLOCK_SIZE
        blk(j) == SubSeq(d, (j - 1) * TC_AES_BLOCK_SIZE + 1, j * TC_AES_BLOCK_SIZE)
        rest == SubSeq(d, n * TC_AES_BLOCK_SIZE + 1, Len(d))
    IN  [FoldLeft(Chained, st, [j \in 1 .. n |-> blk(j)])
            EXCEPT !.leftover = Overwritten(@, 0, rest), !.leftover_offset = Len(rest)]

\* CBC over each block but the last, which is kept; without data nothing is
Taken(st, d) ==
    LET n    == IF d = <<>> THEN 0 ELSE (Len(d) - 1) \div TC_AES_BLOCK_SIZE
        blk(j) == SubSeq(d, (j - 1) * TC_AES_BLOCK_SIZE + 1, j * TC_AES_BLOCK_SIZE)
        rest == SubSeq(d, n * TC_AES_BLOCK_SIZE + 1, Len(d))
    IN  [FoldLeft(Chained, st, [j \in 1 .. n |-> blk(j)])
            EXCEPT !.leftover = Overwritten(@, 0, rest), !.leftover_offset = Len(rest)]

Updated(st, d) ==
    LET at    == st.leftover_offset
        space == TC_AES_BLOCK_SIZE - at
        full  == Overwritten(st.leftover, at, SubSeq(d, 1, space))
    IN  CASE at = 0 -> Taken(st, d)
          [] at > 0 /\ Len(d) < space ->
               [st EXCEPT !.leftover = Overwritten(@, at, d), !.leftover_offset = at + Len(d)]
          [] at > 0 /\ Len(d) >= space ->
               Taken([Chained(st, full) EXCEPT !.leftover = full, !.leftover_offset = 0],
                     SubSeq(d, space + 1, Len(d)))

\* It fails, and takes nothing, once the calls are used up.
tc_cmac_update(d) ==
    /\ Len(message) + Len(d) <= MaxLength
    /\ s.countdown > 0
    /\ s' = Updated([s EXCEPT !.countdown = @ - 1], d)
    /\ message' = message \o d
    /\ closed' = (s.leftover_offset > 0 /\ s.leftover_offset + Len(d) = TC_AES_BLOCK_SIZE
                  /\ s.leftover_offset < TC_AES_BLOCK_SIZE)
    /\ UNCHANGED <<tag, key, sessions>>

tc_cmac_final ==
    LET at   == s.leftover_offset
        last == IF at = TC_AES_BLOCK_SIZE THEN Plus(s.leftover, s.K1)
                ELSE Plus([i \in DOMAIN s.leftover |->
                              IF i <= at THEN s.leftover[i]
                              ELSE IF i = at + 1 THEN TC_CMAC_PADDING ELSE 0], s.K2)
    IN  /\ tag' = tc_aes_encrypt(tag, Added(s.iv, last), s.sched)
        /\ s' = Erase
        /\ UNCHANGED <<key, message, closed, sessions>>

Init ==
    \E k \in Keys :
        /\ key = k /\ s = WithKey(k)
        /\ tag = NoTag /\ message = <<>> /\ closed = FALSE /\ sessions = 1

Next ==
    \/ \E k \in Keys : tc_cmac_setup(k)
    \/ tc_cmac_init
    \/ \E n \in 1 .. MaxLength : \E d \in [1 .. n -> Data] : tc_cmac_update(d)
    \/ tc_cmac_final
    \/ tc_cmac_erase

Spec == Init /\ [][Next]_vars
-----------------------------------------------------------------------------
(* The reference: RFC 4493 over whole messages, with numbers for the field. *)

Bits        == TC_AES_BLOCK_SIZE * ByteBits
Number(b)   == FoldLeft(LAMBDA n, byte : n * 2 ^ ByteBits + byte, 0, b)
NumberedBy(n) == [i \in 1 .. TC_AES_BLOCK_SIZE |->
                    (n \div 2 ^ (ByteBits * (TC_AES_BLOCK_SIZE - i))) % 2 ^ ByteBits]
Doubled(b)  == LET n == 2 * Number(b) IN
               NumberedBy(IF n < 2 ^ Bits THEN n ELSE (n % 2 ^ Bits) ^^ gf_wrap)

AesCmac(k, m) ==
    LET n     == IF m = <<>> THEN 1 ELSE (Len(m) + TC_AES_BLOCK_SIZE - 1) \div TC_AES_BLOCK_SIZE
        whole == m # <<>> /\ Len(m) % TC_AES_BLOCK_SIZE = 0
        padded == IF whole THEN m
                  ELSE [i \in 1 .. n * TC_AES_BLOCK_SIZE |->
                           IF i <= Len(m) THEN m[i]
                           ELSE IF i = Len(m) + 1 THEN TC_CMAC_PADDING ELSE 0]
        M(i)  == SubSeq(padded, (i - 1) * TC_AES_BLOCK_SIZE + 1, i * TC_AES_BLOCK_SIZE)
        X     == FoldLeft(LAMBDA x, b : Aes(k, Added(x, b)), ZeroValue, [i \in 1 .. n - 1 |-> M(i)])
        sub   == IF whole THEN Doubled(k) ELSE Doubled(Doubled(k))
    IN  Aes(k, Added(X, Plus(M(n), sub)))
-----------------------------------------------------------------------------
\* A tag is the CMAC of what was taken since the session began, however it was cut into
\* updates, unless the last update filled up the bytes left over and ended there: that block is
\* then encrypted as if another followed (tc_cmac_update), and the tag is a different one.
TagIsCmac ==
    tag # NoTag => (tag = AesCmac(key, message) <=> ~closed)
=============================================================================
