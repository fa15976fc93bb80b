SPECIFICATION Spec
CONSTANTS
  Names = {f, g}
  Lengths = {0, 1}
  number_of_clusters = 3
  cluster_size = 2
  number_of_root_directory_entries = 2
  LinksPerSector = 3
  MaxSaves = 5
  NULL = NULL
INVARIANT FilesIntact
SYMMETRY Symmetry
CHECK_DEADLOCK FALSE
