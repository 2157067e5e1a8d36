------------------------------- MODULE RecipeBook -------------------------------
(***************************************************************************)
(* RecipeService over InMemoryRecipeRepository.  The repository is a map from   *)
(* ids to recipes: every recipe the factory builds has an id of its own, but a    *)
(* decorated recipe has the id of the one it wraps, and usually another name.      *)
(* What keeps two recipes of one name apart is addRecipe alone, which compares      *)
(* names with equalsIgnoreCase; ids it does not compare, so that a recipe with the   *)
(* id of one in the book takes its place.                                            *)
(***************************************************************************)
EXTENDS Integers, Sequences

CONSTANTS
    Recipes,      \* the recipe objects there are, decorated ones included
    RecipeId,     \* the id of each
    Ingredients,  \* the ingredient list of each, as ids
    Skill,        \* requiredSkillLevel of each
    Name,         \* its name
    Lower         \* each name in lower case

Names == {Name[r] : r \in Recipes}

ASSUME BookRecipes == /\ DOMAIN RecipeId = Recipes
                      /\ DOMAIN Name = Recipes
                      /\ DOMAIN Lower = Names
                      /\ DOMAIN Skill = Recipes
                      /\ DOMAIN Ingredients = Recipes

VARIABLE recipes  \* InMemoryRecipeRepository.store: the recipes in it, one per id

IngredientIds == UNION {{Ingredients[r][k] : k \in DOMAIN Ingredients[r]} : r \in Recipes}

EmptyBook == recipes = {}

EqualsExactly(a, b) == Name[a] = Name[b]

EqualsIgnoreCase(a, b) == Lower[Name[a]] = Lower[Name[b]]

--------------------------------------------------------------------------------
\* Slip: names are compared letter by letter.
DuplicateExactly(r) == \E other \in recipes : EqualsExactly(other, r)

Duplicate(r) == \E other \in recipes : EqualsIgnoreCase(other, r)

\* delete: the map without what it holds for an id.
Without(id) == {r \in recipes : RecipeId[r] # id}

\* save: the recipe is what the map holds for its id from now on.
With(r) == Without(RecipeId[r]) \cup {r}

\* addRecipe: a recipe of that name makes it throw, which GameManager.tryAdd ignores.
AddRecipe(r) == recipes' = IF Duplicate(r) THEN recipes ELSE With(r)

\* removeRecipe; an unknown id makes it throw.
RemoveRecipe(id) == /\ \E r \in recipes : RecipeId[r] = id
                    /\ recipes' = Without(id)

\* containsIngredient
Lists(r, i) == \E k \in DOMAIN Ingredients[r] : Ingredients[r][k] = i

\* removeRecipeWithIngredient, which deletes while it goes through a copy of the list;
\* it deletes by id, which no two recipes of the map share.
RemoveRecipeWithIngredient(i) == recipes' = {r \in recipes : ~Lists(r, i)}

\* Slip: the next level's recipes are offered too.
FindByNextSkillLevel(level) == {r \in recipes : Skill[r] <= level + 1}

\* getAvailableRecipes
FindByMaxSkillLevel(level) == {r \in recipes : Skill[r] <= level}

EditBook == \/ \E r \in Recipes : AddRecipe(r)
            \/ \E id \in {RecipeId[r] : r \in Recipes} : RemoveRecipe(id)
            \/ \E i \in IngredientIds : RemoveRecipeWithIngredient(i)

BookSpec == EmptyBook /\ [][EditBook]_recipes

--------------------------------------------------------------------------------
(* Properties *)

\* Whatever is added and removed in whatever order, no two recipes of the book have names
\* that differ in capitals only, although the map would hold them both.
NamesUnique == \A a, b \in recipes : EqualsIgnoreCase(a, b) => a = b

================================================================================
