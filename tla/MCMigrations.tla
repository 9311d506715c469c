---------------------------- MODULE MCMigrations ----------------------------
(* A small instance of Migrations for TLC.                                  *)
EXTENDS Migrations, TLC

CONSTANTS s1, s2

DB(objects, vs, s, ext) == [catalog |-> objects, versions |-> vs,
                            dimensions |-> s, extension |-> ext]

(* An empty database with and without pgvector or an empty tracking table, *)
(* every version installed by hand and every tracked one; a half-made      *)
(* schema, gaps and a newer installation; and tables that are wrong: with  *)
(* the pending statements running or not, with nothing left to do, and     *)
(* left behind when all other tables were dropped.                         *)
MCDatabases ==
  {DB({}, NoTable, Unset, TRUE), DB({}, NoTable, Unset, FALSE),
   DB({}, {}, Unset, TRUE)}
  \union {DB(SchemaOf(v), NoTable, s1, TRUE) : v \in 0 .. LastVersion}
  \union {DB(SchemaOf(v), 0 .. v, s1, TRUE) : v \in 0 .. LastVersion}
  \union {DB({"memories", "meta"}, NoTable, s1, TRUE),
          DB(SchemaOf(2), {0, 2}, s1, TRUE),
          DB(SchemaOf(0), {2}, s1, TRUE),
          DB(SchemaOf(LastVersion), 0 .. LastVersion + 1, s1, TRUE)}
  \union {DB(SchemaOf(1), 0 .. 2, s1, TRUE),
          DB(SchemaOf(0), 0 .. 1, s1, TRUE),
          DB(SchemaOf(2), 0 .. LastVersion, s1, TRUE),
          DB({}, 0 .. LastVersion, Unset, TRUE)}
=============================================================================
