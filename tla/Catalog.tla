------------------------------- MODULE Catalog -------------------------------
(***************************************************************************)
(* CatalogManager and the table map of Database (src/src/                  *)
(* catalogmanager.cpp, database.cpp): which tables exist, under which id,  *)
(* in memory and in catalog.db.  A table's heap and index files are named  *)
(* after its id.  No lock guards any of this.                              *)
(***************************************************************************)
EXTENDS Integers, Functions, FiniteSetsExt

VARIABLES
    tables,          \* CatalogManager::tables: name -> id
    next_table_id,
    file,            \* the lines of catalog.db: name -> id
    opened           \* Database::tables: name -> the id of the files behind it

catalogVars == <<tables, next_table_id, file, opened>>

NoTables == [n \in {} |-> 0]

CatalogInit ==
    /\ tables = NoTables /\ file = NoTables /\ opened = NoTables
    /\ next_table_id = 0

hasTable(n) == n \in DOMAIN tables

(* map[n] = id.                                                            *)
put(map, n, id) == [m \in DOMAIN map \cup {n} |-> IF m = n THEN id ELSE map[m]]

(* createTable() between its check and saveCatalog(), with the id read.    *)
enterTable(n, id) ==
    /\ next_table_id' = id + 1
    /\ tables' = put(tables, n, id)
    /\ UNCHANGED <<file, opened>>

(* saveCatalog() truncates the file, and writes all its lines.             *)
truncateFile == file' = NoTables /\ UNCHANGED <<tables, next_table_id, opened>>

writeFile == file' = tables /\ UNCHANGED <<tables, next_table_id, opened>>

openTableStorage(n, id) ==
    /\ opened' = put(opened, n, id)
    /\ UNCHANGED <<tables, next_table_id, file>>

(* Mutant: the next id is the largest one in use. *)
nextReused(lines) == IF lines = NoTables THEN 0 ELSE Max(Range(lines))

nextAfter(lines) == IF lines = NoTables THEN 0 ELSE Max(Range(lines)) + 1

(* A new process: loadCatalog(), then Database opens every table.          *)
loadCatalog ==
    /\ tables' = file /\ opened' = file
    /\ next_table_id' = nextAfter(file)
    /\ UNCHANGED file

=============================================================================
