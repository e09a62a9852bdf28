------------------------------ MODULE SmCrypto ------------------------------
(***************************************************************************)
(* The cryptographic functions of sm.cpp over free terms.  AES-128 and      *)
(* AES-CMAC are injective symbols, so two results are equal just when the   *)
(* same function was applied to equal arguments in the same order: what     *)
(* the checks of the pairing protocol compare.  How the arguments are       *)
(* placed, which of them a function takes and in which order are the        *)
(* code's; byte order, padding and the truncation of a result are left out  *)
(* (two parties that agree on whole values agree on any part of them).      *)
(***************************************************************************)
EXTENDS Naturals

__sm_encrypt(k, plain_data) == <<"aes", k, plain_data>>
__sm_aes_cmac(k, input)     == <<"cmac", k, input>>

\* the exclusive or of c1's arguments, which only c1 uses and always in this order
Xor(a, b) == <<"xor", a, b>>

\* An address carries its type: ia stands for the arguments iat and ia of the code.
__sm_c1(k, r, preq, pres, ia, ra) ==
    LET p1  == <<ia, ra, preq, pres>>
        p2  == <<ra, ia>>
    IN  __sm_encrypt(k, Xor(__sm_encrypt(k, Xor(r, p1)), p2))

__sm_s1(k, r1, r2) == __sm_encrypt(k, <<r2, r1>>)

__sm_f4(u, v, x, z) == __sm_aes_cmac(x, <<u, v, z>>)

__sm_f5(w, n1, n2, a1, a2) ==
    LET t          == __sm_aes_cmac(<<"salt">>, w)
        m(counter) == <<counter, "btle", n1, n2, a1, a2, 256>>
    IN  [mackey |-> __sm_aes_cmac(t, m(0)), ltk |-> __sm_aes_cmac(t, m(1))]

__sm_f6(w, n1, n2, r, iocap, a1, a2) == __sm_aes_cmac(w, <<n1, n2, r, iocap, a1, a2>>)

\* the number a user compares; that two of its 1000000 values coincide is left out
__sm_g2(u, v, x, y) == __sm_aes_cmac(x, <<u, v, y>>)

\* the hash part of a resolvable private address
sm_ah(k, r) == __sm_encrypt(k, r)
=============================================================================
