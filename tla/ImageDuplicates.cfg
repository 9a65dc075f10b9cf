\* The hub restarts after the image reference was edited.
CONSTANTS
    ImageRef = {i1, i2}
    JobId = {1, 2, 3}
    MaxTime = 3
    Units = {4, 2}
SPECIFICATION Spec
SYMMETRY Symmetry
PROPERTIES NoDuplicates
