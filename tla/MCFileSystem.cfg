SPECIFICATION Spec
CONSTANTS
  Names = {f, g}
  Lengths = {1, 3, 5}
  number_of_clusters = 4
  cluster_size = 2
  number_of_root_directory_entries = 2
  LinksPerSector = 3
  MaxSaves = 6
  NULL = NULL
INVARIANTS TypeOK FilesIntact ChainsDisjoint NoClusterLost UntouchedSurvive
SYMMETRY Symmetry
CHECK_DEADLOCK FALSE
