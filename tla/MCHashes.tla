------------------------------- MODULE MCHashes -------------------------------
(***************************************************************************)
(* Stand-ins for the external primitives used by every MC module: the    *)
(* eleven sph 512-bit hashes and sha256_double_hash become small          *)
(* arithmetic mixers.  They are deterministic and spread their outputs   *)
(* over the digest space, so the byte reads of the code reach every       *)
(* primitive index, every X11KV round count 2..6, and le32 words both     *)
(* below and above HASHX11KVS_MAX_DRIFT.                                  *)
(***************************************************************************)
EXTENDS Naturals

\* 32-byte halves told apart; a 64-byte digest is one of MC_D32^2 values.
MC_D32 == 32

MC_Lane(h, i) == (h * (2 * i + 3) * 37 + i * 11 + h \div 3) % 256

MC_Primitive(j, x, len) ==
  (((x * 131 + (j + 1) * 977 + len * 13) % 1021) * 7 + j) % (MC_D32 * MC_D32)

MC_Sha256d(buf) == (buf[1] * 7 + buf[2] * 13 + buf[3] * 29 + 5) % MC_D32

=============================================================================
